---- MODULE Spec2Model ----
(***************************************************************************)
(* FireCAM firmware: the one-second image pipeline and its task fabric.    *)
(*                                                                         *)
(* Tasks modelled: app_task (orchestrator), cam_task (visual driver),      *)
(* lep_task (thermal driver), the gui_task event handler (display),        *)
(* file_task (file recorder), cmd_task (command responder) and adc_task    *)
(* (shutdown source).  Tasks communicate through FreeRTOS task             *)
(* notifications (xTaskNotify with eSetBits: a set of bits per task, read  *)
(* and cleared as a whole by xTaskNotifyWait) and through shared buffers.  *)
(*                                                                         *)
(* Conventions                                                             *)
(*  - A notification word is a set of bit names.                           *)
(*  - One action is one evaluation of a task loop body (or one blocking    *)
(*    call of it, where the task blocks on I/O in the middle of a          *)
(*    handler).  Tasks interleave arbitrarily: no assumption is made about *)
(*    relative speeds.                                                     *)
(*  - Display-only notifications (record LED, record counter, message box) *)
(*    change no state any other task reads and are not represented.        *)
(*  - SD card I/O succeeds exactly when the physical card is usable        *)
(*    (card_ok); the card may be removed or inserted at any time.          *)
(***************************************************************************)
EXTENDS Integers, Sequences, FiniteSets, TLC

(***************************************************************************)
(* Program constants                                                       *)
(***************************************************************************)
APP_EVAL_MSEC == 50
APP_MAX_WAIT_MSEC == 800
MAX_FILE_WRITE_LEN == 4096
LEP_VSYNC_FAIL_COUNT == 36
LEP_VSYNC_POLL_MSEC == 9
CMD_RESPONSE_MAX_WAIT_MSEC == 1500
CMD_RESPONSE_WAIT_TASK_SLEEP_MSEC == 100
CMD_RESPONSE_WAIT_COUNT_INIT ==
  CMD_RESPONSE_MAX_WAIT_MSEC \div CMD_RESPONSE_WAIT_TASK_SLEEP_MSEC
\* The RTC second, whose change time_changed reports, in milliseconds.
SecondMsec == 1000
CMD_MAX_TX_PKT_LEN == 1024
PS_MAGIC_WORD_0 == 18
PS_MAGIC_WORD_1 == 52
PS_LAYOUT_VERSION == 2
PS_REC_INTERVAL_LEN == 2
WIFI_INFO_FLAG_STARTUP_ENABLE == 1
WIFI_INFO_FLAG_CL_STATIC_IP == 16
WIFI_INFO_FLAG_CLIENT_MODE == 128
CMD_JSON_STRING_START == 2
CMD_JSON_STRING_STOP == 3
LEP_MAX_FRAME_XFER_WAIT_USEC == 9250
\* The line whose packet carries the segment number, the last line of a
\* segment, and the value prevLine starts with.
SegmentLine == 20
LastLine == 59
NoLine == 255

(***************************************************************************)
(* Bounds of the model                                                     *)
(***************************************************************************)
\* Largest sequence number a session may reach before the model stops it.
MaxSeq == 3
\* Length in bytes of an image record holding metadata only.
MetaLen == 400
\* Additional length of a record that carries a jpeg or a radiometric payload.
PayloadLen == 3000
\* Number of 9 ms vsync polls the thermal driver is followed for.
MaxLowPolls == 40
\* The thermal driver's deadline as the spec states it, in milliseconds.
LepDeadlineMsec == 340
\* The orchestrator's deadline as the spec states it, in milliseconds.
CycleDeadlineMsec == 950
\* Size of rx_circular_buffer: CMD_MAX_TCP_RX_BUFFER_LEN (1024), scaled down.
RxBufferLen == 8
\* Size of json_cmd_string: JSON_MAX_CMD_TEXT_LEN (256), scaled down.
JsonMaxLen == 3
\* Most bytes received on one connection; less than RxBufferLen, so that the
\* push index does not wrap.
MaxStream == 6
\* Most bytes one recv returns.
MaxChunk == 3
\* A byte that is not a delimiter.
OtherByte == 120
\* PS_SSID_MAX_LEN (32), PS_PW_MAX_LEN (32) and PS_PALETTE_NAME_LEN (16), scaled
\* down.
SsidMaxLen == 2
PwMaxLen == 1
PaletteNameLen == 1
\* Bytes of the SRAM between the last field and the checksum.
SramSpare == 2
\* Microseconds one transfer_packet takes: 164 bytes at 16 MHz is 82 us; a
\* read is followed for a few packets only, so each is made to take longer.
PacketUsec == 2500
\* The time since vsync up to which a segment read is followed.
VospiMaxUsec == 12000
\* What a send that takes only part of a chunk returns, in bytes.
PartialSend == 500
\* Longest response, in multiples of PartialSend.
MaxResponseParts == 6

\* Number of fwrite calls without progress that are counted.
MaxNoProgress == 2
\* Number of user events (record button, record and poweroff commands, card
\* removals and insertions) in one run.
MaxUserEvents == 2

\* Recording intervals (seconds) the settings screen offers, restricted to the
\* smallest ones.
RecordIntervals == {1}

VARIABLES
  \* ---- app_task
  app_pc,                   \* "boot" | "run" | "shutdown_wait" | "halt" | "restart"
  app_state,                \* "WAIT_TOS" | "WAIT_IMAGE"
  msec_count,
  cam_image_request_state,  \* "IDLE" | "REQUESTED" | "RECEIVED" | "FAILED"
  lep_image_request_state,
  cam_gui_update_pending,
  lep_gui_update_pending,
  sdcard_present,
  app_recording,
  file_image_send_pending,
  app_rec_arducam_en,
  app_rec_lepton_en,
  app_rec_seq_num,
  app_rec_interval,
  app_rec_interval_cnt,
  cmd_requesting_image,
  cmd_image_send_pending,
  app_notif,                \* notification word of app_task
  last_assembly,            \* what app_process_images did in the last loop pass
  tos_elapsed_msec,         \* time app_task has slept since it entered WAIT_IMAGE
  \* ---- shared state
  gui_st,                   \* persisted recording parameters
  ps_rec_enable,            \* persistent "was recording" flag
  pwr_hold,                 \* power hold line
  sys_image_file_buffer,    \* record handed to file_task
  sys_cmd_response_buffer,  \* record handed to cmd_task
  \* ---- cam_task
  cam_pc,                   \* "wait" | "capture" | "transfer"
  cam_notif,
  \* ---- lep_task
  lep_pc,                   \* "wait" | "vsync"
  lep_notif,
  vsync_count,
  lep_low_polls,            \* 9 ms polls of a low vsync line since the request
  \* ---- gui_task
  gui_notif,
  gui_cur_screen_index,     \* "MAIN" | "POWEROFF"
  \* ---- file_task and file_utilities
  file_pc,                  \* "init" | "loop" | "write"
  file_notif,
  recording,
  rec_seq_num,
  card_present,
  mounted,                  \* a FatFs work area is registered for the default drive
  byte_offset,
  image_json_len,           \* length of the record write_image_file is writing
  stop_after_write,         \* the batch being handled also holds STOP_RECORDING
  no_progress_calls,        \* fwrite calls of this write_image_file that wrote nothing
  session_files,            \* sequence numbers of the files created in the session
  card_ok,                  \* a usable card is in the slot
  \* ---- cmd_task
  cmd_pc,                   \* "recv" | "wait" | "send" | "bail"
  cmd_notif,
  response_was_image,
  \* ---- environment
  user_events,              \* record button presses, record and poweroff commands
                            \* and card changes so far
  \* ---- cmd_task against the clock (specification SpecRespond)
  sec_msec,                 \* time since the RTC second last changed
  wait_count,               \* count of the response wait loop; 0 outside the loop
  cmd_sleep_msec,           \* time slept so far in the current vTaskDelay(100)
  cmd_waited_msec,          \* time slept in the wait loop for the current request
  \* ---- cmd_task and its socket (specification SpecSend)
  sock_open,                \* a client connection is accepted and not closed
  send_failed,              \* a send on this connection has returned an error
  response_length,
  tx_byte_offset,           \* byte_offset of the send loop
  shutoff_delay_msec,       \* how long app_task slept before power hold fell
  \* ---- cmd_task's command parser (specification SpecRx)
  rx_circular_buffer,
  rx_circular_push_index,
  rx_circular_pop_index,
  json_cmd_string,          \* the bytes copied by the last process_rx_data
  json_overrun,             \* json_cmd_string was written outside its bounds
  rx_stream,                \* every byte received on the connection so far
  decoded,                  \* the strings passed to process_rx_packet so far
  \* ---- the persistent store (specifications SpecPs, SpecPsTasks)
  ps_shadow_buffer,         \* the copy in RAM
  rtc_sram,                 \* the battery-backed SRAM of the RTC chip
  rtc_at_boot,              \* what the SRAM held when ps_init read it
  ps_boot,                  \* "off" | "on": ps_init has run
  ps_pc,                    \* per task: "idle" | "region" | "checksum"
  ps_type,                  \* per task: the update type of its ps_write_array
  \* ---- the thermal segment read (specification SpecVospi)
  curSegment,               \* static: the segment being collected, 1..4
  validSegmentRegion,       \* static: a line 20 with segment 1 was seen
  vospi_pc,                 \* "idle" | "loop": inside vospi_transfer_segment
  prevLine,                 \* local: the line of the previous valid packet
  beforeValidData,          \* local
  success,                  \* local: what the read returns
  lepPacket,                \* what transfer_packet made of the last packet
  lep_copied,               \* the <<segment, line>> slots filled by this read
  vospi_usec,               \* microseconds since the vsync edge
  \* ---- the record commands of a client (specification SpecOnOff)
  last_record_cmd,          \* the last of record_on / record_off that
                            \* process_rx_packet has seen, "none" before
  \* ---- what the frame buffer holds (specification SpecFrame)
  read_segment,             \* the segment number of this read's line 20, or 0
  frame_segments            \* for each segment of the frame being collected:
                            \* the segment number its line 20 reported, and
                            \* whether it was read for an earlier request

app_vars == <<app_pc, app_state, msec_count, cam_image_request_state,
              lep_image_request_state, cam_gui_update_pending,
              lep_gui_update_pending, sdcard_present, app_recording,
              file_image_send_pending, app_rec_arducam_en, app_rec_lepton_en,
              app_rec_seq_num, app_rec_interval, app_rec_interval_cnt,
              cmd_requesting_image, cmd_image_send_pending, app_notif,
              last_assembly, tos_elapsed_msec>>
shared_vars == <<gui_st, ps_rec_enable, pwr_hold, sys_image_file_buffer,
                 sys_cmd_response_buffer>>
cam_vars == <<cam_pc, cam_notif>>
lep_vars == <<lep_pc, lep_notif, vsync_count, lep_low_polls>>
gui_vars == <<gui_notif, gui_cur_screen_index>>
file_vars == <<file_pc, file_notif, recording, rec_seq_num, card_present,
               mounted, byte_offset, image_json_len,
               stop_after_write, no_progress_calls, session_files>>
cmd_vars == <<cmd_pc, cmd_notif, response_was_image>>
env_vars == <<card_ok, user_events>>
time_vars == <<sec_msec, wait_count, cmd_sleep_msec, cmd_waited_msec,
              shutoff_delay_msec>>
sock_vars == <<sock_open, send_failed, response_length, tx_byte_offset>>
rx_vars == <<rx_circular_buffer, rx_circular_push_index, rx_circular_pop_index,
            json_cmd_string, json_overrun, rx_stream, decoded>>
ps_vars == <<ps_shadow_buffer, rtc_sram, rtc_at_boot, ps_boot, ps_pc, ps_type>>
vospi_vars == <<curSegment, validSegmentRegion, vospi_pc, prevLine,
               beforeValidData, success, lepPacket, lep_copied, vospi_usec>>
client_vars == <<last_record_cmd>>
frame_vars == <<read_segment, frame_segments>>
net_vars == <<time_vars, sock_vars, rx_vars, ps_vars, vospi_vars, client_vars,
              frame_vars>>
vars == <<app_vars, shared_vars, cam_vars, lep_vars, gui_vars, file_vars,
          env_vars, cmd_vars, net_vars>>

(***************************************************************************)
(* app_task: notification handling.  The handler works through the bits of *)
(* one notification word in the order of the source; s is the task's state *)
(* together with the notifications it sends (to_file, to_gui, to_cmd) and  *)
(* ctl, which leaves "run" when the handler does not return (shutdown      *)
(* spin, esp_restart).                                                     *)
(***************************************************************************)
\* An image record as json_get_image_file_string builds it: the metadata
\* sequence number and the payloads it carries; len 0 is the empty buffer.
ImageJsonLen(has_cam, has_lep) ==
  MetaLen + (IF has_cam THEN PayloadLen ELSE 0) + (IF has_lep THEN PayloadLen ELSE 0)

ImageRecord(seq_num, has_cam, has_lep) ==
  [seq |-> seq_num, cam |-> has_cam, lep |-> has_lep,
   len |-> ImageJsonLen(has_cam, has_lep)]

NoRecord == [seq |-> 0, cam |-> FALSE, lep |-> FALSE, len |-> 0]

\* What one pass of the app_task loop did with app_process_images: whether it
\* ran, the valid_cam / valid_lep arguments and the buffers it read.
NoAssembly == [ran |-> FALSE, valid_cam |-> FALSE, valid_lep |-> FALSE,
               read_cam |-> FALSE, read_lep |-> FALSE]

AppState ==
  [cam_image_request_state |-> cam_image_request_state,
   lep_image_request_state |-> lep_image_request_state,
   cam_gui_update_pending  |-> cam_gui_update_pending,
   lep_gui_update_pending  |-> lep_gui_update_pending,
   sdcard_present          |-> sdcard_present,
   app_recording           |-> app_recording,
   file_image_send_pending |-> file_image_send_pending,
   app_rec_seq_num         |-> app_rec_seq_num,
   app_rec_interval_cnt    |-> app_rec_interval_cnt,
   cmd_requesting_image    |-> cmd_requesting_image,
   cmd_image_send_pending  |-> cmd_image_send_pending,
   ps_rec_enable           |-> ps_rec_enable,
   file_buffer             |-> sys_image_file_buffer,
   cmd_buffer              |-> sys_cmd_response_buffer,
   assembly                |-> NoAssembly,
   to_file |-> {}, to_gui |-> {}, to_cmd |-> FALSE,
   ctl |-> "run"]

StopRecEnable_Cleared(en_restart, flag) == FALSE

\* ps_set_rec_enable as app_task_stop_recording calls it: a normal stop clears
\* the flag, a stop that restarts the system leaves it alone.
StopRecEnable(en_restart, flag) == IF en_restart THEN flag ELSE FALSE

\* app_task_stop_recording(en_restart).  With en_restart the function calls
\* itself (a no-op, app_recording being false by then) and then esp_restart.
app_task_stop_recording(s, en_restart) ==
  IF s.app_recording
    THEN [s EXCEPT !.app_recording = FALSE,
                   !.app_rec_seq_num = 0,
                   !.app_rec_interval_cnt = 0,
                   !.to_file = @ \cup {"STOP_RECORDING"},
                   !.ps_rec_enable = StopRecEnable(en_restart, @),
                   !.ctl = IF en_restart THEN "restart" ELSE @]
    ELSE s

MayStart_NoCard(is_recording, present) == ~is_recording

\* "if (!app_recording && sdcard_present)" of app_task_start_recording.
MayStart(is_recording, present) == ~is_recording /\ present

\* app_task_start_recording(from_gui): from_gui only selects a message box.
app_task_start_recording(s) ==
  IF MayStart(s.app_recording, s.sdcard_present)
    THEN [s EXCEPT !.to_file = @ \cup {"START_RECORDING"}]
    ELSE s

StartRecEnable_Clear == FALSE

\* The value ps_set_rec_enable receives when file_task has started recording.
StartRecEnable == TRUE

OnShutdown(s) ==
  [app_task_stop_recording(s, FALSE) EXCEPT !.to_gui = @ \cup {"SHUTDOWN"},
                                            !.ctl = "shutdown"]

OnCamFrame(s) ==
  [s EXCEPT !.cam_image_request_state = "RECEIVED",
            !.to_gui = IF s.cam_gui_update_pending THEN @ ELSE @ \cup {"CAM_FRAME"},
            !.cam_gui_update_pending = TRUE]

OnLepFrame(s) ==
  [s EXCEPT !.lep_image_request_state = "RECEIVED",
            !.to_gui = IF s.lep_gui_update_pending THEN @ ELSE @ \cup {"LEP_FRAME"},
            !.lep_gui_update_pending = TRUE]

OnRecordBtn(s) ==
  IF s.app_recording THEN app_task_stop_recording(s, FALSE)
                     ELSE app_task_start_recording(s)

OnRecordStart(s) ==
  [s EXCEPT !.app_recording = TRUE,
            !.app_rec_seq_num = 1,
            !.app_rec_interval_cnt = 0,
            !.ps_rec_enable = StartRecEnable]

OnRecordImgDone(s) ==
  [s EXCEPT !.file_image_send_pending = FALSE,
            !.app_rec_seq_num = IF s.app_recording THEN @ + 1 ELSE @]

\* The bits of the notification word in the order in which the handler tests
\* them.
NotifyOrder ==
  <<"SHUTDOWN", "CAM_FRAME", "CAM_FAIL", "GUI_CAM_DONE", "LEP_FRAME", "LEP_FAIL",
    "GUI_LEP_DONE", "RECORD_BTN", "SDCARD_PRESENT", "SDCARD_MISSING",
    "RECORD_START", "RECORD_FAIL", "RECORD_IMG_DONE", "START_RECORD",
    "STOP_RECORD", "CMD_REQ", "CMD_DONE">>

\* The branch of the handler for one bit.
OnBit(s, bit) ==
  CASE bit = "SHUTDOWN"        -> OnShutdown(s)
    [] bit = "CAM_FRAME"       -> OnCamFrame(s)
    [] bit = "CAM_FAIL"        -> [s EXCEPT !.cam_image_request_state = "FAILED"]
    [] bit = "GUI_CAM_DONE"    -> [s EXCEPT !.cam_gui_update_pending = FALSE]
    [] bit = "LEP_FRAME"       -> OnLepFrame(s)
    [] bit = "LEP_FAIL"        -> [s EXCEPT !.lep_image_request_state = "FAILED"]
    [] bit = "GUI_LEP_DONE"    -> [s EXCEPT !.lep_gui_update_pending = FALSE]
    [] bit = "RECORD_BTN"      -> OnRecordBtn(s)
    [] bit = "SDCARD_PRESENT"  -> [s EXCEPT !.sdcard_present = TRUE]
    [] bit = "SDCARD_MISSING"  -> [s EXCEPT !.sdcard_present = FALSE]
    [] bit = "RECORD_START"    -> OnRecordStart(s)
    [] bit = "RECORD_FAIL"     -> app_task_stop_recording(s, TRUE)
    [] bit = "RECORD_IMG_DONE" -> OnRecordImgDone(s)
    [] bit = "START_RECORD"    -> app_task_start_recording(s)
    [] bit = "STOP_RECORD"     -> app_task_stop_recording(s, FALSE)
    [] bit = "CMD_REQ"         -> [s EXCEPT !.cmd_requesting_image = TRUE]
    [] bit = "CMD_DONE"        -> [s EXCEPT !.cmd_image_send_pending = FALSE]

\* One test of the handler: the branch is taken when the bit is set in the
\* word n and the handler is still running.
StillHandling_Always(ctl) == TRUE

\* The handler gets to its next test: the shutdown branch spins forever and the
\* failure branch restarts the system, so neither returns.
StillHandling(ctl) == ctl = "run"

Bit(s, n, bit) == IF StillHandling(s.ctl) /\ bit \in n THEN OnBit(s, bit) ELSE s

RECURSIVE HandleBits(_, _, _)
\* The handler's tests from number i on, in order, starting in state s.
HandleBits(s, n, i) ==
  IF i > Len(NotifyOrder)
    THEN s
    ELSE CHOOSE r \in {HandleBits(t, n, i + 1) : t \in {Bit(s, n, NotifyOrder[i])}} :
           TRUE

app_task_handle_notifications(s0, n) == HandleBits(s0, n, 1)

(***************************************************************************)
(* app_task: frame assembly and the one-second state machine.              *)
(***************************************************************************)
\* Largest value app_rec_interval_cnt is followed to: the counter is only ever
\* compared (>=) with an interval of at most this value.
MaxIntervalCnt == 5

IncIntervalCnt(c) == IF c < MaxIntervalCnt THEN c + 1 ELSE c

\* An imager's payload is processed iff its image is valid and, when recording,
\* recording of that imager is enabled.
ProcessImage(valid, s_recording, rec_en) == valid /\ (~s_recording \/ rec_en)

IntervalExpired_Always(cnt, interval) == TRUE

\* The record interval has expired: ++app_rec_interval_cnt >= app_rec_interval.
IntervalExpired(cnt, interval) == cnt >= interval

FileBufferFree_Always(send_pending) == TRUE

\* "if (!file_image_send_pending && app_recording)": sys_image_file_buffer is
\* not with file_task.
FileBufferFree(send_pending) == ~send_pending

app_process_images(s, valid_cam, valid_lep) ==
  LET process_cam == ProcessImage(valid_cam, s.app_recording, app_rec_arducam_en)
      process_lep == ProcessImage(valid_lep, s.app_recording, app_rec_lepton_en)
      image == ImageRecord(s.app_rec_seq_num, process_cam, process_lep)
      cnt == IncIntervalCnt(s.app_rec_interval_cnt)
      to_file_task == s.app_recording /\ IntervalExpired(cnt, app_rec_interval)
                      /\ FileBufferFree(s.file_image_send_pending)
      to_cmd_task == ~s.cmd_image_send_pending /\ s.cmd_requesting_image
  IN  [s EXCEPT
        !.assembly = [ran |-> TRUE, valid_cam |-> valid_cam, valid_lep |-> valid_lep,
                      read_cam |-> process_cam, read_lep |-> process_lep],
        !.app_rec_interval_cnt =
            IF ~s.app_recording THEN @ ELSE IF to_file_task THEN 0 ELSE cnt,
        !.file_buffer = IF to_file_task THEN image ELSE @,
        !.to_file = IF to_file_task THEN @ \cup {"NEW_IMAGE"} ELSE @,
        !.file_image_send_pending = IF to_file_task THEN TRUE ELSE @,
        !.cmd_buffer = IF to_cmd_task THEN image ELSE @,
        !.to_cmd = IF to_cmd_task THEN TRUE ELSE @,
        !.cmd_image_send_pending = IF to_cmd_task THEN TRUE ELSE @,
        !.cmd_requesting_image = IF to_cmd_task THEN FALSE ELSE @]

EarlyDemand_RecordingOnly(s) == ~s.file_image_send_pending /\ s.app_recording

\* WAIT_IMAGE, both images received: is there demand for them now?
EarlyDemand(s) ==
  \/ (~s.file_image_send_pending /\ s.app_recording)
  \/ (~s.app_recording /\ ~s.cmd_image_send_pending /\ s.cmd_requesting_image)

\* WAIT_IMAGE, end of the wait period: is there demand for whatever arrived?
TimeoutDemand(s) == s.app_recording \/ s.cmd_requesting_image

WaitExpired_Late(msec) == msec >= APP_MAX_WAIT_MSEC + 4 * APP_EVAL_MSEC

\* The end of the wait period has been reached.
WaitExpired(msec) == msec >= APP_MAX_WAIT_MSEC

ValidAtTimeout_NotFailed(request_state) == request_state # "FAILED"

\* The valid_cam / valid_lep argument at the end of the wait period.
ValidAtTimeout(request_state) == request_state = "RECEIVED"

BothReceived(s) ==
  s.cam_image_request_state = "RECEIVED" /\ s.lep_image_request_state = "RECEIVED"

RequestFrame_Always(gui_update_pending) == TRUE

\* WAIT_TOS, top of second: an imager is asked for a frame iff the display
\* update of its previous frame is not pending.
RequestFrame(gui_update_pending) == ~gui_update_pending

\* One pass of the switch on app_state, after the notifications were handled.
\* tos is what time_changed returns.  msec_count is not read in WAIT_TOS before
\* it is reset, and is kept at 0 there.
AppSwitch(h, tos) ==
  IF app_state = "WAIT_TOS"
    THEN IF tos
      THEN [state |-> "WAIT_IMAGE", msec |-> 0 + APP_EVAL_MSEC,
            req_cam |-> RequestFrame(h.cam_gui_update_pending),
            req_lep |-> RequestFrame(h.lep_gui_update_pending),
            s |-> [h EXCEPT
                    !.cam_image_request_state =
                        IF RequestFrame(h.cam_gui_update_pending)
                          THEN "REQUESTED" ELSE "IDLE",
                    !.lep_image_request_state =
                        IF RequestFrame(h.lep_gui_update_pending)
                          THEN "REQUESTED" ELSE "IDLE"]]
      ELSE [state |-> "WAIT_TOS", msec |-> 0, req_cam |-> FALSE, req_lep |-> FALSE,
            s |-> h]
    ELSE IF BothReceived(h)
      THEN [state |-> "WAIT_TOS", msec |-> 0, req_cam |-> FALSE, req_lep |-> FALSE,
            s |-> IF EarlyDemand(h) THEN app_process_images(h, TRUE, TRUE) ELSE h]
      ELSE IF WaitExpired(msec_count)
        THEN [state |-> "WAIT_TOS", msec |-> 0, req_cam |-> FALSE, req_lep |-> FALSE,
              s |-> IF TimeoutDemand(h)
                      THEN app_process_images(h,
                             ValidAtTimeout(h.cam_image_request_state),
                             ValidAtTimeout(h.lep_image_request_state))
                      ELSE h]
        ELSE [state |-> "WAIT_IMAGE", msec |-> msec_count + APP_EVAL_MSEC,
              req_cam |-> FALSE, req_lep |-> FALSE, s |-> h]

\* The result of one pass of the app_task loop: handle the notification word,
\* then (if the handler returned) the state switch and the 50 ms delay.
AppPass(tos) ==
  CHOOSE r \in
    {IF h.ctl = "run"
       THEN AppSwitch(h, tos)
       ELSE [state |-> app_state, msec |-> msec_count,
             req_cam |-> FALSE, req_lep |-> FALSE, s |-> h] :
     h \in {app_task_handle_notifications(AppState, app_notif)}} : TRUE

\* One pass of the app_task loop: every variable of the firmware it changes.
app_task_pass(tos) ==
  /\ app_pc = "run"
  /\ \E r \in {AppPass(tos)} : \E s \in {r.s} :
         /\ s.app_rec_seq_num <= MaxSeq
         /\ app_pc' = CASE s.ctl = "run" -> "run"
                        [] s.ctl = "shutdown" -> "shutdown_wait"
                        [] OTHER -> "restart"
         /\ app_state' = r.state
         /\ msec_count' = r.msec
         /\ tos_elapsed_msec' = r.msec
         /\ cam_image_request_state' = s.cam_image_request_state
         /\ lep_image_request_state' = s.lep_image_request_state
         /\ cam_gui_update_pending' = s.cam_gui_update_pending
         /\ lep_gui_update_pending' = s.lep_gui_update_pending
         /\ sdcard_present' = s.sdcard_present
         /\ app_recording' = s.app_recording
         /\ file_image_send_pending' = s.file_image_send_pending
         /\ app_rec_seq_num' = s.app_rec_seq_num
         /\ app_rec_interval_cnt' = s.app_rec_interval_cnt
         /\ cmd_requesting_image' = s.cmd_requesting_image
         /\ cmd_image_send_pending' = s.cmd_image_send_pending
         /\ ps_rec_enable' = s.ps_rec_enable
         /\ sys_image_file_buffer' = s.file_buffer
         /\ sys_cmd_response_buffer' = s.cmd_buffer
         /\ last_assembly' = s.assembly
         /\ app_notif' = {}
         /\ file_notif' = file_notif \cup s.to_file
         /\ gui_notif' = gui_notif \cup s.to_gui
         /\ cmd_notif' = (cmd_notif \/ s.to_cmd)
         /\ cam_notif' = (cam_notif \/ r.req_cam)
         /\ lep_notif' = (lep_notif \/ r.req_lep)
  /\ UNCHANGED <<app_rec_arducam_en, app_rec_lepton_en, app_rec_interval,
                 gui_st, pwr_hold, cam_pc, lep_pc, vsync_count, lep_low_polls,
                 gui_cur_screen_index, file_pc, recording, rec_seq_num,
                 card_present, mounted, byte_offset, image_json_len,
                 stop_after_write, no_progress_calls, session_files, env_vars,
                 cmd_pc,
                 response_was_image>>

AppTick(tos) == app_task_pass(tos) /\ UNCHANGED net_vars

\* Start of app_task: read the recording parameters and, if the persistent flag
\* says the system was recording, notify itself to start recording.
AppBoot ==
  /\ app_pc = "boot"
  /\ app_pc' = "run"
  /\ app_rec_arducam_en' = gui_st.rec_arducam_enable
  /\ app_rec_lepton_en' = gui_st.rec_lepton_enable
  /\ app_rec_interval' = gui_st.record_interval
  /\ app_rec_interval_cnt' = 0
  /\ app_notif' = IF ps_rec_enable THEN app_notif \cup {"START_RECORD"} ELSE app_notif
  /\ UNCHANGED <<app_state, msec_count, tos_elapsed_msec, cam_image_request_state,
                 lep_image_request_state, cam_gui_update_pending,
                 lep_gui_update_pending, sdcard_present, app_recording,
                 file_image_send_pending, app_rec_seq_num, cmd_requesting_image,
                 cmd_image_send_pending, last_assembly, shared_vars, cam_vars,
                 lep_vars, gui_vars, file_vars, env_vars, cmd_vars>>
  /\ UNCHANGED net_vars

\* The shutdown branch after the display was notified: 1.5 s delay, then
\* system_shutoff drops the power hold line and the task spins.
SHUTDOWN_DELAY_MSEC == 1500
\* system_shutoff's delay for final logging.
SHUTOFF_LOG_DELAY_MSEC == 10

AppShutoff ==
  /\ UNCHANGED <<ps_vars, vospi_vars, client_vars, frame_vars>>
  /\ app_pc = "shutdown_wait"
  /\ app_pc' = "halt"
  /\ pwr_hold' = FALSE
  /\ tos_elapsed_msec' = IF app_state = "WAIT_IMAGE"
                           THEN msec_count + SHUTDOWN_DELAY_MSEC ELSE 0
  /\ UNCHANGED <<app_state, msec_count, cam_image_request_state,
                 lep_image_request_state, cam_gui_update_pending,
                 lep_gui_update_pending, sdcard_present, app_recording,
                 file_image_send_pending, app_rec_arducam_en, app_rec_lepton_en,
                 app_rec_seq_num, app_rec_interval, app_rec_interval_cnt,
                 cmd_requesting_image, cmd_image_send_pending, app_notif,
                 last_assembly, gui_st, ps_rec_enable, sys_image_file_buffer,
                 sys_cmd_response_buffer, cam_vars, lep_vars, gui_vars, file_vars,
                 env_vars, cmd_vars>>
  /\ shutoff_delay_msec' = SHUTDOWN_DELAY_MSEC + SHUTOFF_LOG_DELAY_MSEC
  /\ UNCHANGED <<sec_msec, wait_count, cmd_sleep_msec, cmd_waited_msec,
                 sock_vars, rx_vars>>

\* Everything of app_task but its notification word.
app_private == <<app_pc, app_state, msec_count, tos_elapsed_msec,
                 cam_image_request_state, lep_image_request_state,
                 cam_gui_update_pending, lep_gui_update_pending, sdcard_present,
                 app_recording, file_image_send_pending, app_rec_arducam_en,
                 app_rec_lepton_en, app_rec_seq_num, app_rec_interval,
                 app_rec_interval_cnt, cmd_requesting_image,
                 cmd_image_send_pending, last_assembly>>

(***************************************************************************)
(* cam_task: block for a request, capture, wait for the capture (at most   *)
(* 300 ms), then drain the FIFO into sys_cam_buffer under the VSPI lock    *)
(* and report a frame (length non-zero) or a failure.                      *)
(***************************************************************************)
CamTaskWake ==
  /\ cam_pc = "wait" /\ cam_notif
  /\ cam_notif' = FALSE
  /\ cam_pc' = "capture"
  /\ UNCHANGED <<app_vars, shared_vars, lep_vars, gui_vars, file_vars, env_vars,
                 cmd_vars>>
  /\ UNCHANGED net_vars

CamCaptureWait ==
  /\ cam_pc = "capture"
  /\ cam_pc' = "transfer"
  /\ UNCHANGED <<cam_notif, app_vars, shared_vars, lep_vars, gui_vars, file_vars,
                 env_vars, cmd_vars>>
  /\ UNCHANGED net_vars

\* The notification cam_task posts for a buffer length.
CamResult(found_image) == IF found_image THEN "CAM_FRAME" ELSE "CAM_FAIL"

CamTransfer(found_image) ==
  /\ cam_pc = "transfer"
  /\ cam_pc' = "wait"
  /\ app_notif' = app_notif \cup {CamResult(found_image)}
  /\ UNCHANGED <<cam_notif, app_private, shared_vars, lep_vars, gui_vars,
                 file_vars, env_vars, cmd_vars>>
  /\ UNCHANGED net_vars

\* One whole pass of the cam_task loop.
cam_task(found_image) ==
  /\ cam_pc = "wait" /\ cam_notif
  /\ cam_notif' = FALSE
  /\ app_notif' = app_notif \cup {CamResult(found_image)}
  /\ UNCHANGED <<cam_pc, app_private, shared_vars, lep_vars, gui_vars, file_vars,
                 env_vars, cmd_vars>>
  /\ UNCHANGED net_vars

(***************************************************************************)
(* lep_task: block for a request, then read segments until a frame is      *)
(* complete (frame copied to sys_lep_buffer and LEP_FRAME posted) or 36    *)
(* segment reads have failed (LEP_FAIL posted).                            *)
(***************************************************************************)
\* xTaskNotifyWait returns: "done = false; vsync_count = 0;".
LepWake ==
  /\ lep_pc = "wait" /\ lep_notif
  /\ lep_notif' = FALSE
  /\ lep_pc' = "vsync"
  /\ vsync_count' = 0
  /\ lep_low_polls' = 0
  /\ UNCHANGED <<app_vars, shared_vars, cam_vars, gui_vars, file_vars, env_vars,
                 cmd_vars>>

LepTaskWake == LepWake /\ UNCHANGED net_vars

\* The notification lep_task posts when its loop is done.
LepResult(frame_done) == IF frame_done THEN "LEP_FRAME" ELSE "LEP_FAIL"

\* One whole pass of the lep_task loop, for a sensor that keeps raising vsync.
lep_task(frame_done) ==
  /\ lep_pc = "wait" /\ lep_notif
  /\ lep_notif' = FALSE
  /\ app_notif' = app_notif \cup {LepResult(frame_done)}
  /\ UNCHANGED <<lep_pc, vsync_count, lep_low_polls, app_private, shared_vars,
                 cam_vars, gui_vars, file_vars, env_vars, cmd_vars>>
  /\ UNCHANGED net_vars

(***************************************************************************)
(* lep_task, one vsync at a time (specification SpecLep).                  *)
(***************************************************************************)
\* app_task's request at a top of second.
LepRequest ==
  /\ ~lep_notif
  /\ lep_notif' = TRUE
  /\ app_notif' = app_notif \ {"LEP_FRAME", "LEP_FAIL"}
  /\ UNCHANGED <<lep_pc, vsync_count, lep_low_polls, app_private, shared_vars,
                 cam_vars, gui_vars, file_vars, env_vars, cmd_vars>>
  /\ UNCHANGED net_vars

\* gpio_get_level(LEP_VSYNC_IO) == 0: sleep 9 ms and look again.
LepPollLow ==
  /\ lep_pc = "vsync"
  /\ lep_low_polls < MaxLowPolls
  /\ lep_low_polls' = lep_low_polls + 1
  /\ UNCHANGED <<lep_pc, lep_notif, vsync_count, app_vars, shared_vars, cam_vars,
                 gui_vars, file_vars, env_vars, cmd_vars>>
  /\ UNCHANGED net_vars

\* The count of failed segment reads at which lep_task gives up.
LepGiveUp(count) == count = LEP_VSYNC_FAIL_COUNT

\* vsync is high: vospi_transfer_segment returns whether a frame is complete.
LepSegment(frame_done) ==
  /\ lep_pc = "vsync"
  /\ IF frame_done
       THEN /\ app_notif' = app_notif \cup {LepResult(TRUE)}
            /\ lep_pc' = "wait"
            /\ vsync_count' = 0
            /\ lep_low_polls' = 0
       ELSE IF LepGiveUp(vsync_count + 1)
         THEN /\ app_notif' = app_notif \cup {LepResult(FALSE)}
              /\ lep_pc' = "wait"
              /\ vsync_count' = 0
              /\ lep_low_polls' = 0
         ELSE /\ vsync_count' = vsync_count + 1
              /\ UNCHANGED <<app_notif, lep_pc, lep_low_polls>>
  /\ UNCHANGED <<lep_notif, app_private, shared_vars, cam_vars, gui_vars,
                 file_vars, env_vars, cmd_vars>>
  /\ UNCHANGED net_vars

(***************************************************************************)
(* gui_task: the 50 ms LVGL event handler sub-task.                        *)
(***************************************************************************)
\* Whether the handler draws an imager's buffer: its frame bit is set and the
\* main screen is (still) the current screen.
GuiRenders(n, screen, bit) == bit \in n /\ screen = "MAIN"

GuiScreenAfter(n, screen) == IF "SHUTDOWN" \in n THEN "POWEROFF" ELSE screen

GuiDone(n) == (IF "CAM_FRAME" \in n THEN {"GUI_CAM_DONE"} ELSE {})
              \cup (IF "LEP_FRAME" \in n THEN {"GUI_LEP_DONE"} ELSE {})

gui_task_event_handler_task ==
  /\ gui_notif # {}
  /\ gui_notif' = {}
  /\ gui_cur_screen_index' = GuiScreenAfter(gui_notif, gui_cur_screen_index)
  /\ app_notif' = app_notif \cup GuiDone(gui_notif)
  /\ UNCHANGED <<app_private, shared_vars, cam_vars, lep_vars, file_vars, env_vars,
                 cmd_vars>>
  /\ UNCHANGED net_vars

\* The record button of the main screen.
GuiRecordButton ==
  /\ gui_cur_screen_index = "MAIN"
  /\ "RECORD_BTN" \notin app_notif
  /\ app_notif' = app_notif \cup {"RECORD_BTN"}
  /\ user_events < MaxUserEvents
  /\ user_events' = user_events + 1
  /\ UNCHANGED <<app_private, shared_vars, cam_vars, lep_vars, gui_vars, file_vars,
                 card_ok, cmd_vars>>
  /\ UNCHANGED net_vars

(***************************************************************************)
(* adc_task: critical battery, or the power button held for 1.5 s.         *)
(***************************************************************************)
AdcShutdown ==
  /\ "SHUTDOWN" \notin app_notif
  /\ app_notif' = app_notif \cup {"SHUTDOWN"}
  /\ UNCHANGED user_events
  /\ UNCHANGED <<app_private, shared_vars, cam_vars, lep_vars, gui_vars, file_vars,
                 card_ok, cmd_vars>>
  /\ UNCHANGED net_vars

(***************************************************************************)
(* file_task and the file_utilities it calls.  f is the recorder's state   *)
(* together with the notifications it sends to app_task (to_app).          *)
(***************************************************************************)
FileState ==
  [recording |-> recording, rec_seq_num |-> rec_seq_num,
   card_present |-> card_present, mounted |-> mounted,
   session_files |-> session_files, to_app |-> {}]

\* file_mount_sdcard: f_mount registers the work area and mounts at once; a
\* failure to mount marks the card as not present.
file_mount_sdcard(f, ok) ==
  IF ok THEN [f EXCEPT !.mounted = TRUE]
        ELSE [f EXCEPT !.mounted = TRUE, !.card_present = FALSE]

\* The sequence number setup_recording_session gives the first file.
FirstSeqNum == 1

\* setup_recording_session and the notification that reports its result; the
\* session directory can be made iff the card mounts.
setup_recording_session(f, ok) ==
  IF f.card_present
    THEN LET m == file_mount_sdcard(f, ok)
         IN  IF ok
               THEN [m EXCEPT !.recording = TRUE,
                              !.rec_seq_num = FirstSeqNum,
                              !.session_files = <<>>,
                              !.to_app = @ \cup {"RECORD_START"}]
               ELSE [m EXCEPT !.to_app = @ \cup {"RECORD_NOSTART"}]
    ELSE [f EXCEPT !.to_app = @ \cup {"RECORD_NOSTART"}]

\* The FILE_NOTIFY_STOP_RECORDING branch of handle_notifications.
StopSession(f) ==
  [f EXCEPT !.recording = FALSE, !.rec_seq_num = 0, !.mounted = FALSE]

\* update_card_present_info when its period has elapsed (probe).
update_card_present_info(f, probe, ok) ==
  IF probe /\ ~f.recording
    THEN IF f.card_present
      THEN IF ok THEN f
                 ELSE [f EXCEPT !.card_present = FALSE,
                                !.to_app = @ \cup {"SDCARD_MISSING"}]
      ELSE IF ok THEN [f EXCEPT !.card_present = TRUE,
                                !.to_app = @ \cup {"SDCARD_PRESENT"}]
                 ELSE f
    ELSE f

\* file_open_image_write_file: the file can be created iff the volume is
\* mounted and the card answers.
file_open_image_write_file(f, ok) == f.mounted /\ ok

\* The rest of one loop pass once FILE_NOTIFY_NEW_IMAGE has been dealt with.
AfterNewImage(f, stop, probe, ok) ==
  update_card_present_info(IF stop THEN StopSession(f) ELSE f, probe, ok)

\* Start of file_task: probe for a card, tell app_task, and mount the card
\* once to format it if needed.
FileInit ==
  /\ file_pc = "init"
  /\ file_pc' = "loop"
  /\ card_present' = card_ok
  /\ mounted' = FALSE
  /\ app_notif' = app_notif \cup
                    (IF card_ok THEN {"SDCARD_PRESENT"} ELSE {"SDCARD_MISSING"})
  /\ UNCHANGED <<app_private, shared_vars, cam_vars, lep_vars, gui_vars,
                 file_notif, recording, rec_seq_num, byte_offset, image_json_len,
                 stop_after_write, no_progress_calls, session_files, env_vars,
                 cmd_vars>>
  /\ UNCHANGED net_vars

\* One pass of the file_task loop up to the point where it either finishes or
\* has opened an image file and starts writing it.
FileTick(probe) ==
  /\ file_pc = "loop"
  /\ file_notif # {} \/ probe
  /\ rec_seq_num <= MaxSeq
  /\ LET n  == file_notif
         f1 == IF "START_RECORDING" \in n
                 THEN setup_recording_session(FileState, card_ok)
                 ELSE FileState
         opened == "NEW_IMAGE" \in n /\ file_open_image_write_file(f1, card_ok)
         f2 == IF "NEW_IMAGE" \in n /\ ~opened
                 THEN [f1 EXCEPT !.to_app = @ \cup {"RECORD_FAIL"}]
                 ELSE f1
         f3 == IF opened
                 THEN [f2 EXCEPT !.session_files = Append(@, f2.rec_seq_num)]
                 ELSE AfterNewImage(f2, "STOP_RECORDING" \in n, probe, card_ok)
     IN  /\ file_notif' = {}
         /\ file_pc' = IF opened THEN "write" ELSE "loop"
         /\ byte_offset' = IF opened THEN 0 ELSE byte_offset
         /\ image_json_len' = IF opened THEN sys_image_file_buffer.len
                                        ELSE image_json_len
         /\ stop_after_write' = (opened /\ "STOP_RECORDING" \in n)
         /\ no_progress_calls' = IF opened THEN 0 ELSE no_progress_calls
         /\ recording' = f3.recording
         /\ rec_seq_num' = f3.rec_seq_num
         /\ card_present' = f3.card_present
         /\ mounted' = f3.mounted
         /\ session_files' = f3.session_files
         /\ app_notif' = app_notif \cup f3.to_app
  /\ UNCHANGED <<app_private, shared_vars, cam_vars, lep_vars, gui_vars, env_vars,
                 cmd_vars>>
  /\ UNCHANGED net_vars

\* The number of bytes handed to one fwrite call.
ChunkLen(len, offset) ==
  IF len - offset > MAX_FILE_WRITE_LEN THEN MAX_FILE_WRITE_LEN ELSE len - offset

\* fwrite returns the number of bytes it has written: all of them, or none when
\* the card does not take them.
fwrite(len, ok) == IF ok THEN len ELSE 0

\* The test write_image_file applies to the value fwrite returned.
WriteError(write_ret) == write_ret < 0

NextSeqNum_Skip(n) == n + 2

\* rec_seq_num++ once the file is closed.
NextSeqNum(n) == n + 1

CountNoProgress(c) == IF c < MaxNoProgress THEN c + 1 ELSE c

\* write_image_file leaves its loop: close the file, count it, report the
\* result, then finish the loop pass.
FinishWrite(err, probe) ==
  LET f == [FileState EXCEPT
              !.rec_seq_num = NextSeqNum(@),
              !.to_app = {IF err THEN "RECORD_FAIL" ELSE "RECORD_IMG_DONE"}]
      g == AfterNewImage(f, stop_after_write, probe, card_ok)
  IN  /\ file_pc' = "loop"
      /\ stop_after_write' = FALSE
      /\ recording' = g.recording
      /\ rec_seq_num' = g.rec_seq_num
      /\ card_present' = g.card_present
      /\ mounted' = g.mounted
      /\ app_notif' = app_notif \cup g.to_app
      /\ UNCHANGED <<byte_offset, no_progress_calls>>

\* One fwrite call of the loop in write_image_file.
FileWriteChunk(probe) ==
  /\ file_pc = "write"
  /\ byte_offset < image_json_len
  /\ LET write_ret == fwrite(ChunkLen(image_json_len, byte_offset), card_ok)
     IN  IF WriteError(write_ret)
           THEN FinishWrite(TRUE, probe)
           ELSE /\ byte_offset' = byte_offset + write_ret
                /\ no_progress_calls' = IF write_ret = 0
                                          THEN CountNoProgress(no_progress_calls)
                                          ELSE no_progress_calls
                /\ UNCHANGED <<file_pc, stop_after_write, recording, rec_seq_num,
                               card_present, mounted, app_notif>>
  /\ UNCHANGED <<app_private, shared_vars, cam_vars, lep_vars, gui_vars,
                 file_notif, image_json_len, session_files, env_vars, cmd_vars>>
  /\ UNCHANGED net_vars

\* The loop test fails: every byte has been written.
FileWriteDone(probe) ==
  /\ file_pc = "write"
  /\ byte_offset >= image_json_len
  /\ FinishWrite(FALSE, probe)
  /\ UNCHANGED <<app_private, shared_vars, cam_vars, lep_vars, gui_vars,
                 file_notif, image_json_len, session_files, env_vars, cmd_vars>>
  /\ UNCHANGED net_vars

(***************************************************************************)
(* cmd_task: one client, one command at a time.                            *)
(***************************************************************************)
\* A command that only notifies app_task: record_on, record_off, poweroff.
CmdBit(cmd) == CASE cmd = "record_on"  -> "START_RECORD"
                 [] cmd = "record_off" -> "STOP_RECORD"
                 [] cmd = "poweroff"   -> "SHUTDOWN"

CmdNotify(cmd) ==
  /\ cmd_pc = "recv"
  /\ CmdBit(cmd) \notin app_notif
  /\ app_notif' = app_notif \cup {CmdBit(cmd)}
  /\ user_events < MaxUserEvents
  /\ user_events' = user_events + 1
  /\ UNCHANGED <<app_private, shared_vars, cam_vars, lep_vars, gui_vars, file_vars,
                 card_ok, cmd_vars>>
  /\ UNCHANGED net_vars

\* record_on or record_off as process_rx_packet handles it: the command is the
\* last one seen, and its bit is set in app_task's notification word (setting
\* a bit that is already set changes nothing).
CmdRecord(cmd) ==
  /\ cmd_pc = "recv"
  /\ user_events < MaxUserEvents
  /\ user_events' = user_events + 1
  /\ last_record_cmd' = cmd
  /\ app_notif' = app_notif \cup {CmdBit(cmd)}
  /\ UNCHANGED <<app_private, shared_vars, cam_vars, lep_vars, gui_vars, file_vars,
                 card_ok, cmd_vars>>
  /\ UNCHANGED <<time_vars, sock_vars, rx_vars, ps_vars, vospi_vars, frame_vars>>

\* get_image: ask app_task for an image and wait for the response.
CmdGetImage ==
  /\ cmd_pc = "recv"
  /\ cmd_pc' = "wait"
  /\ app_notif' = app_notif \cup {"CMD_REQ"}
  /\ UNCHANGED user_events
  /\ UNCHANGED <<app_private, shared_vars, cam_vars, lep_vars, gui_vars, file_vars,
                 card_ok, cmd_notif, response_was_image>>
  /\ UNCHANGED net_vars

\* cmd_task_handle_notifications sees CMD_NOTIFY_IMAGE while waiting.
CmdImageAvailable ==
  /\ cmd_pc = "wait" /\ cmd_notif
  /\ cmd_notif' = FALSE
  /\ response_was_image' = TRUE
  /\ cmd_pc' = "send"
  /\ UNCHANGED <<app_vars, shared_vars, cam_vars, lep_vars, gui_vars, file_vars,
                 env_vars>>
  /\ UNCHANGED net_vars

\* The notification that ends a response, sent or dropped.
CmdDone(was_image) == IF was_image THEN {"CMD_DONE"} ELSE {}

\* The response has been written to the socket.
CmdSend ==
  /\ cmd_pc = "send"
  /\ cmd_pc' = "recv"
  /\ app_notif' = app_notif \cup CmdDone(response_was_image)
  /\ UNCHANGED <<app_private, shared_vars, cam_vars, lep_vars, gui_vars, file_vars,
                 env_vars, cmd_notif, response_was_image>>
  /\ UNCHANGED net_vars

\* No response within the wait period: the command is dropped.
CmdTimeout ==
  /\ cmd_pc = "wait" /\ ~cmd_notif
  /\ cmd_pc' = "recv"
  /\ app_notif' = app_notif \cup CmdDone(response_was_image)
  /\ UNCHANGED <<app_private, shared_vars, cam_vars, lep_vars, gui_vars, file_vars,
                 env_vars, cmd_notif, response_was_image>>
  /\ UNCHANGED net_vars

(***************************************************************************)
(* cmd_task against the clock (specification SpecRespond).  Time passes in *)
(* steps of APP_EVAL_MSEC, one pass of the app_task loop each; the         *)
(* responder's wait loop sleeps CMD_RESPONSE_WAIT_TASK_SLEEP_MSEC per      *)
(* poll.  app_prev_time is 0 when app_task starts, so its first pass sees  *)
(* a change of second; sec_msec starts one pass before the change.         *)
(***************************************************************************)
\* time_changed in the pass that follows APP_EVAL_MSEC of sleep.
time_changed(msec) == msec + APP_EVAL_MSEC >= SecondMsec

\* The responder's vTaskDelay in the wait loop has expired.
CmdDelayExpired ==
  cmd_pc = "wait" /\ cmd_sleep_msec >= CMD_RESPONSE_WAIT_TASK_SLEEP_MSEC

\* APP_EVAL_MSEC pass: app_task wakes and makes one pass of its loop.
RespondPass ==
  /\ UNCHANGED <<ps_vars, vospi_vars, client_vars, frame_vars>>
  /\ ~CmdDelayExpired
  /\ app_task_pass(time_changed(sec_msec))
  /\ sec_msec' = (sec_msec + APP_EVAL_MSEC) % SecondMsec
  /\ cmd_sleep_msec' = IF cmd_pc = "wait" THEN cmd_sleep_msec + APP_EVAL_MSEC
                                          ELSE cmd_sleep_msec
  /\ cmd_waited_msec' = IF cmd_pc = "wait" THEN cmd_waited_msec + APP_EVAL_MSEC
                                           ELSE cmd_waited_msec
  /\ UNCHANGED <<wait_count, shutoff_delay_msec, sock_vars, rx_vars>>

CountInLoop_Short(c) == (IF c = 0 THEN CMD_RESPONSE_WAIT_COUNT_INIT - 5 ELSE c) - 1

\* count after "count-- > 0" let the loop body run; the loop is entered with
\* CMD_RESPONSE_WAIT_COUNT_INIT.
CountInLoop(c) == (IF c = 0 THEN CMD_RESPONSE_WAIT_COUNT_INIT ELSE c) - 1

\* One iteration of the wait loop after its delay: handle notifications; leave
\* the loop with a response, or bail out when the count is used up.
CmdWaitPoll ==
  /\ UNCHANGED <<ps_vars, vospi_vars, client_vars, frame_vars>>
  /\ CmdDelayExpired
  /\ cmd_sleep_msec' = 0
  /\ cmd_waited_msec' = IF cmd_notif \/ CountInLoop(wait_count) = 0
                          THEN 0 ELSE cmd_waited_msec
  /\ IF cmd_notif
       THEN /\ cmd_notif' = FALSE
            /\ response_was_image' = TRUE
            /\ cmd_pc' = "send"
            /\ wait_count' = 0
            /\ UNCHANGED app_notif
       ELSE IF CountInLoop(wait_count) = 0
         THEN /\ cmd_pc' = "recv"
              /\ wait_count' = 0
              /\ app_notif' = app_notif \cup CmdDone(response_was_image)
              /\ UNCHANGED <<cmd_notif, response_was_image>>
         ELSE /\ wait_count' = CountInLoop(wait_count)
              /\ UNCHANGED <<cmd_pc, cmd_notif, response_was_image, app_notif>>
  /\ UNCHANGED <<app_private, shared_vars, cam_vars, lep_vars, gui_vars, file_vars,
                 env_vars, sec_msec, shutoff_delay_msec, sock_vars, rx_vars>>

(***************************************************************************)
(* cmd_task's wait loop statement by statement where it gives up           *)
(* (specification SpecHandoff): app_task runs on the other core, between   *)
(* the last cmd_task_handle_notifications and the xTaskNotify that follows *)
(* the warning.                                                            *)
(***************************************************************************)
\* An iteration of the wait loop that finds a response or leaves polls to do.
CmdPoll ==
  /\ cmd_notif \/ CountInLoop(wait_count) # 0
  /\ CmdWaitPoll

\* The last iteration finds no response: the loop is left and the warning is
\* logged; nothing has been sent to app_task yet.
CmdLastPoll ==
  /\ CmdDelayExpired
  /\ ~cmd_notif /\ CountInLoop(wait_count) = 0
  /\ cmd_pc' = "bail"
  /\ wait_count' = 0 /\ cmd_sleep_msec' = 0 /\ cmd_waited_msec' = 0
  /\ UNCHANGED <<cmd_notif, response_was_image>>
  /\ UNCHANGED <<app_vars, shared_vars, cam_vars, lep_vars, gui_vars, file_vars,
                 env_vars, sec_msec, shutoff_delay_msec, sock_vars, rx_vars,
                 ps_vars, vospi_vars, client_vars, frame_vars>>

\* "response_expected = false; if (response_was_image) xTaskNotify(...)".
CmdBail ==
  /\ cmd_pc = "bail"
  /\ cmd_pc' = "recv"
  /\ app_notif' = app_notif \cup CmdDone(response_was_image)
  /\ UNCHANGED <<app_private, shared_vars, cam_vars, lep_vars, gui_vars, file_vars,
                 env_vars, cmd_notif, response_was_image>>
  /\ UNCHANGED net_vars

(***************************************************************************)
(* cmd_task: the command parser (specification SpecRx).                    *)
(***************************************************************************)
Bytes == {CMD_JSON_STRING_START, CMD_JSON_STRING_STOP, OtherByte}

\* "if (++index >= CMD_MAX_TCP_RX_BUFFER_LEN) index = 0"
RxNext(index) == IF index + 1 >= RxBufferLen THEN 0 ELSE index + 1

\* "if (i++ >= CMD_MAX_TCP_RX_BUFFER_LEN) i = 0" of in_buffer.
InBufferNext(i) == IF i >= RxBufferLen THEN 0 ELSE i + 1

\* rx_circular_buffer[i]; in_buffer reads index CMD_MAX_TCP_RX_BUFFER_LEN, one
\* past the array, only once the push index has wrapped (not within MaxStream).
RxByte(buf, i) == IF i < RxBufferLen THEN buf[i] ELSE 0

RECURSIVE RxPush(_, _, _)
\* The push loop of process_rx_data; the result is <<buffer, push index>>.
RxPush(buf, push, data) ==
  IF data = <<>> THEN <<buf, push>>
  ELSE RxPush([buf EXCEPT ![push] = Head(data)], RxNext(push), Tail(data))

RECURSIVE InBufferFrom(_, _, _, _)
InBufferFrom(c, buf, i, push) ==
  IF i = push THEN -1
  ELSE IF c = RxByte(buf, i) THEN i
  ELSE InBufferFrom(c, buf, InBufferNext(i), push)

\* in_buffer(c): the index of the first c from the pop index on, or -1.
in_buffer(c, buf, pop, push) == InBufferFrom(c, buf, pop, push)

RECURSIVE RxCopy(_, _, _, _, _)
\* The copy loop: <<pop index, i, bytes stored in json_cmd_string>>.
RxCopy(buf, pop, end, i, str) ==
  IF pop # end /\ i < RxBufferLen
    THEN RxCopy(buf, RxNext(pop), end, i + 1,
                IF i < JsonMaxLen THEN Append(str, buf[pop]) ELSE str)
    ELSE <<pop, i, str>>

\* "if (i < JSON_MAX_CMD_TEXT_LEN+1)": the string is passed to process_rx_packet.
RxPassed(i) == i < JsonMaxLen + 1

\* process_rx_data on the parser's variables p for the bytes of one recv.
process_rx_data(p, data) ==
  LET pushed == RxPush(p.buf, p.push, data)
  IN  CHOOSE r \in
        {IF end < 0 THEN [p EXCEPT !.buf = buf, !.push = pushed[2]]
         ELSE IF begin < 0
           THEN [p EXCEPT !.buf = buf, !.push = pushed[2], !.pop = end]
           ELSE CHOOSE q \in
                  {[buf |-> buf, push |-> pushed[2], pop |-> RxNext(c[1]),
                    str |-> c[3],
                    overrun |-> p.overrun \/ c[2] >= JsonMaxLen,
                    decoded |-> IF RxPassed(c[2]) THEN Append(p.decoded, c[3])
                                                  ELSE p.decoded] :
                   c \in {RxCopy(buf, begin, end, 0, <<>>)}} : TRUE :
         buf \in {pushed[1]},
         end \in {in_buffer(CMD_JSON_STRING_STOP, pushed[1], p.pop, pushed[2])},
         begin \in {in_buffer(CMD_JSON_STRING_START, pushed[1], p.pop, pushed[2])}} :
        TRUE

RxState ==
  [buf |-> rx_circular_buffer, push |-> rx_circular_push_index,
   pop |-> rx_circular_pop_index, str |-> json_cmd_string,
   overrun |-> json_overrun, decoded |-> decoded]

\* recv returns data, and process_rx_data runs on it.  What follows a write
\* outside json_cmd_string is undefined and is not followed.
RxRecv(data) ==
  /\ UNCHANGED <<ps_vars, vospi_vars, client_vars, frame_vars>>
  /\ ~json_overrun
  /\ Len(rx_stream) + Len(data) <= MaxStream
  /\ rx_stream' = rx_stream \o data
  /\ \E r \in {process_rx_data(RxState, data)} :
       /\ rx_circular_buffer' = r.buf
       /\ rx_circular_push_index' = r.push
       /\ rx_circular_pop_index' = r.pop
       /\ json_cmd_string' = r.str
       /\ json_overrun' = r.overrun
       /\ decoded' = r.decoded
  /\ UNCHANGED <<app_vars, shared_vars, cam_vars, lep_vars, gui_vars, file_vars,
                 env_vars, cmd_vars, time_vars, sock_vars>>

(***************************************************************************)
(* cmd_task: the client connection and the send loop (specification        *)
(* SpecSend).                                                              *)
(***************************************************************************)
\* accept returns a client socket; init_command_processor ran before listen.
CmdAccept ==
  /\ UNCHANGED <<ps_vars, vospi_vars, client_vars, frame_vars>>
  /\ cmd_pc = "recv" /\ ~sock_open
  /\ sock_open' = TRUE
  /\ send_failed' = FALSE
  /\ rx_circular_push_index' = 0 /\ rx_circular_pop_index' = 0
  /\ UNCHANGED <<response_length, tx_byte_offset>>
  /\ UNCHANGED <<rx_circular_buffer, json_cmd_string, json_overrun, rx_stream,
                 decoded>>
  /\ UNCHANGED <<app_vars, shared_vars, cam_vars, lep_vars, gui_vars, file_vars,
                 env_vars, cmd_vars, time_vars>>

\* recv returns a get_status command: its response of len bytes is ready at
\* once, and the send loop starts at byte_offset 0.
CmdRecvStatus(len) ==
  /\ UNCHANGED <<ps_vars, vospi_vars, client_vars, frame_vars>>
  /\ cmd_pc = "recv" /\ sock_open
  /\ cmd_pc' = "send"
  /\ response_was_image' = FALSE
  /\ response_length' = len
  /\ tx_byte_offset' = 0
  /\ UNCHANGED <<sock_open, send_failed, cmd_notif>>
  /\ UNCHANGED <<app_vars, shared_vars, cam_vars, lep_vars, gui_vars, file_vars,
                 env_vars, time_vars, rx_vars>>

\* "len = response_length - byte_offset; if (len > CMD_MAX_TX_PKT_LEN) ..."
TxChunkLen(length, offset) ==
  IF length - offset > CMD_MAX_TX_PKT_LEN THEN CMD_MAX_TX_PKT_LEN
                                          ELSE length - offset

\* "if (err < 0) { ...; break; }": the send loop, and nothing else, is left.
SendLoopBreaks(err) == err < 0

\* One send of the send loop returns err.  When the loop ends, by the break or
\* with the whole response sent, CMD_DONE is posted for an image,
\* response_expected is cleared and the task is back in recv on the socket.
CmdSendChunk(err) ==
  /\ UNCHANGED <<ps_vars, vospi_vars, client_vars, frame_vars>>
  /\ cmd_pc = "send" /\ sock_open
  /\ tx_byte_offset < response_length
  /\ UNCHANGED <<sock_open, response_length>>
  /\ IF SendLoopBreaks(err)
       THEN /\ send_failed' = TRUE
            /\ tx_byte_offset' = tx_byte_offset
       ELSE /\ send_failed' = send_failed
            /\ tx_byte_offset' = tx_byte_offset + err
  /\ IF SendLoopBreaks(err) \/ tx_byte_offset + err >= response_length
       THEN /\ cmd_pc' = "recv"
            /\ app_notif' = app_notif \cup CmdDone(response_was_image)
       ELSE UNCHANGED <<cmd_pc, app_notif>>
  /\ UNCHANGED <<cmd_notif, response_was_image>>
  /\ UNCHANGED <<app_pc, app_state, msec_count, cam_image_request_state,
                 lep_image_request_state, cam_gui_update_pending,
                 lep_gui_update_pending, sdcard_present, app_recording,
                 file_image_send_pending, app_rec_arducam_en, app_rec_lepton_en,
                 app_rec_seq_num, app_rec_interval, app_rec_interval_cnt,
                 cmd_requesting_image, cmd_image_send_pending, last_assembly,
                 tos_elapsed_msec>>
  /\ UNCHANGED <<shared_vars, cam_vars, lep_vars, gui_vars, file_vars, env_vars,
                 time_vars, rx_vars>>

\* recv returns 0 or an error: the session is closed (shutdown, close) and the
\* task goes back to listen and accept.
CmdRecvClosed ==
  /\ UNCHANGED <<ps_vars, vospi_vars, client_vars, frame_vars>>
  /\ cmd_pc = "recv" /\ sock_open
  /\ sock_open' = FALSE
  /\ UNCHANGED <<send_failed, response_length, tx_byte_offset>>
  /\ UNCHANGED <<app_vars, shared_vars, cam_vars, lep_vars, gui_vars, file_vars,
                 env_vars, cmd_vars, time_vars, rx_vars>>

(***************************************************************************)
(* ps_utilities: the persistent store, a shadow buffer in RAM and the SRAM *)
(* of the RTC chip (specifications SpecPs and SpecPsTasks).                *)
(***************************************************************************)
PS_MAGIC_WORD_0_ADDR == 0
PS_MAGIC_WORD_1_ADDR == 1
PS_LAYOUT_VERSION_ADDR == 2
PS_REC_EN_ADDR == 3
PS_WIFI_EN_ADDR == 4
PS_WIFI_AP_SSID_ADDR == 5
PS_WIFI_AP_PW_ADDR == PS_WIFI_AP_SSID_ADDR + SsidMaxLen + 1
PS_WIFI_STA_SSID_ADDR == PS_WIFI_AP_PW_ADDR + PwMaxLen + 1
PS_WIFI_STA_PW_ADDR == PS_WIFI_STA_SSID_ADDR + SsidMaxLen + 1
PS_WIFI_AP_IP_ADDR == PS_WIFI_STA_PW_ADDR + PwMaxLen + 1
PS_WIFI_STA_IP_ADDR == PS_WIFI_AP_IP_ADDR + 4
PS_REC_ARD_EN_ADDR == PS_WIFI_STA_IP_ADDR + 4
PS_REC_LEP_EN_ADDR == PS_REC_ARD_EN_ADDR + 1
PS_GAIN_MODE_ADDR == PS_REC_LEP_EN_ADDR + 1
PS_PALETTE_NAME_ADDR == PS_GAIN_MODE_ADDR + 1
PS_REC_INTERVAL_ADDR == PS_PALETTE_NAME_ADDR + PaletteNameLen + 1
PS_LAST_VALID_ADDR == PS_REC_INTERVAL_ADDR + PS_REC_INTERVAL_LEN
SRAM_SIZE == PS_LAST_VALID_ADDR + SramSpare
PS_CHECKSUM_ADDR == SRAM_SIZE - 1

PS_REC_EN_UPD_LEN == 1
PS_WIFI_UPD_LEN == PS_REC_ARD_EN_ADDR - PS_WIFI_EN_ADDR
PS_GUI_UPD_LEN == PS_LAST_VALID_ADDR - PS_REC_ARD_EN_ADDR

SramAddrs == 0..(SRAM_SIZE - 1)

\* flags & PS_WIFI_FLAG_MASK, the mask being the three stored flag bits.
PsWifiFlags(flags) ==
  (IF (flags \div WIFI_INFO_FLAG_STARTUP_ENABLE) % 2 = 1
     THEN WIFI_INFO_FLAG_STARTUP_ENABLE ELSE 0)
  + (IF (flags \div WIFI_INFO_FLAG_CL_STATIC_IP) % 2 = 1
       THEN WIFI_INFO_FLAG_CL_STATIC_IP ELSE 0)
  + (IF (flags \div WIFI_INFO_FLAG_CLIENT_MODE) % 2 = 1
       THEN WIFI_INFO_FLAG_CLIENT_MODE ELSE 0)

\* The names of the palette table, by index from 0, cut to PaletteNameLen:
\* "Grayscale", "Fusion".
palettes == <<<<71>>, <<70>>>>

\* The intervals of the record_intervals table, by index from 0.
record_intervals == <<1, 5>>

\* system_get_rec_interval_index: the index of the interval, or -1.
system_get_rec_interval_index(interval) ==
  IF \E k \in 1..Len(record_intervals) : record_intervals[k] = interval
    THEN (CHOOSE k \in 1..Len(record_intervals) : record_intervals[k] = interval) - 1
    ELSE -1

\* The string stored at start: the bytes up to the first zero.
RECURSIVE PsString(_, _)
PsString(buf, start) ==
  IF start >= SRAM_SIZE \/ buf[start] = 0 THEN <<>>
  ELSE <<buf[start]>> \o PsString(buf, start + 1)

\* get_palette_by_name: the index of the name, or -1.
get_palette_by_name(name) ==
  IF \E k \in 1..Len(palettes) : palettes[k] = name
    THEN (CHOOSE k \in 1..Len(palettes) : palettes[k] = name) - 1
    ELSE -1

\* ps_store_string: max_len bytes from start, the string and then zeros.
ps_store_string(buf, s, start, max_len) ==
  [a \in SramAddrs |->
     IF a >= start /\ a < start + max_len
       THEN IF a - start < Len(s) THEN s[a - start + 1] ELSE 0
       ELSE buf[a]]

RECURSIVE PsSum(_, _)
PsSum(buf, n) == IF n = 0 THEN 0 ELSE (PsSum(buf, n - 1) + buf[n - 1]) % 256

ps_compute_checksum_NoMagic(buf) ==
  (PsSum(buf, PS_CHECKSUM_ADDR) + 256 - buf[PS_MAGIC_WORD_0_ADDR]) % 256

\* ps_compute_checksum: the uint8_t sum of all bytes before the checksum.
ps_compute_checksum(buf) == PsSum(buf, PS_CHECKSUM_ADDR)

\* "ps_shadow_buffer[PS_CHECKSUM_ADDR] = ps_compute_checksum()"
PsSeal(buf) == [buf EXCEPT ![PS_CHECKSUM_ADDR] = ps_compute_checksum(buf)]

ps_valid_magic_word(buf) ==
  /\ buf[PS_MAGIC_WORD_0_ADDR] = PS_MAGIC_WORD_0
  /\ buf[PS_MAGIC_WORD_1_ADDR] = PS_MAGIC_WORD_1

\* The default SSID, "firecam-" and four MAC nibbles, cut to SsidMaxLen.
DefaultSsid == <<102, 105>>

\* The default gain mode, LEP_DEF_GAIN_MODE.
DefGainMode == 0

\* The fields ps_init_array stores in every case: the version 2 additions.
PsNewFields(buf) ==
  [a \in SramAddrs |->
     CASE a >= PS_WIFI_STA_SSID_ADDR /\ a < PS_WIFI_STA_SSID_ADDR + SsidMaxLen -> 0
       [] a >= PS_WIFI_STA_PW_ADDR /\ a < PS_WIFI_STA_PW_ADDR + PwMaxLen -> 0
       [] a = PS_WIFI_AP_IP_ADDR + 3 -> 192
       [] a = PS_WIFI_AP_IP_ADDR + 2 -> 168
       [] a = PS_WIFI_AP_IP_ADDR + 1 -> 4
       [] a = PS_WIFI_AP_IP_ADDR + 0 -> 1
       [] a = PS_WIFI_STA_IP_ADDR + 3 -> 192
       [] a = PS_WIFI_STA_IP_ADDR + 2 -> 168
       [] a = PS_WIFI_STA_IP_ADDR + 1 -> 4
       [] a = PS_WIFI_STA_IP_ADDR + 0 -> 2
       [] a = PS_REC_ARD_EN_ADDR -> 1
       [] a = PS_REC_LEP_EN_ADDR -> 1
       [] a = PS_GAIN_MODE_ADDR -> DefGainMode
       [] a = PS_REC_INTERVAL_ADDR -> 0
       [] a = PS_REC_INTERVAL_ADDR + 1 -> 1
       [] OTHER -> buf[a]]

UpgradeVersion_Keep(version) == version

\* The version byte ps_init_array leaves.
UpgradeVersion(version) == PS_LAYOUT_VERSION

\* The version 1 part of ps_init_array: every field when the array is
\* initialised, the version byte alone when it is upgraded.
PsOldFields(buf, upgrade) ==
  IF upgrade
    THEN [buf EXCEPT ![PS_LAYOUT_VERSION_ADDR] = UpgradeVersion(@)]
    ELSE ps_store_string(
           [a \in SramAddrs |->
              CASE a = PS_MAGIC_WORD_0_ADDR -> PS_MAGIC_WORD_0
                [] a = PS_MAGIC_WORD_1_ADDR -> PS_MAGIC_WORD_1
                [] a = PS_LAYOUT_VERSION_ADDR -> PS_LAYOUT_VERSION
                [] a = PS_WIFI_EN_ADDR -> WIFI_INFO_FLAG_STARTUP_ENABLE
                [] OTHER -> 0],
           DefaultSsid, PS_WIFI_AP_SSID_ADDR, SsidMaxLen)

\* ps_init_array(upgrade).
ps_init_array(buf, upgrade) ==
  PsSeal(ps_store_string(PsNewFields(PsOldFields(buf, upgrade)),
                         palettes[2], PS_PALETTE_NAME_ADDR, PaletteNameLen))

\* The bytes ps_write_array(t) sends to the SRAM besides the checksum.
PsRegion(t) ==
  CASE t = "FULL" -> SramAddrs
    [] t = "WIFI" -> PS_WIFI_EN_ADDR..(PS_WIFI_EN_ADDR + PS_WIFI_UPD_LEN - 1)
    [] t = "REC"  -> PS_REC_EN_ADDR..(PS_REC_EN_ADDR + PS_REC_EN_UPD_LEN - 1)
    [] t = "GUI"  -> PS_REC_ARD_EN_ADDR..(PS_REC_ARD_EN_ADDR + PS_GUI_UPD_LEN - 1)

\* One write to the RTC chip: the bytes at addrs are copied from the buffer.
write_rtc_bytes(sram, buf, addrs) ==
  [a \in SramAddrs |-> IF a \in addrs THEN buf[a] ELSE sram[a]]

\* ps_init: what it leaves in <<shadow buffer, SRAM>>.
ps_init(sram) ==
  IF ~ps_valid_magic_word(sram) \/ ps_compute_checksum(sram) # sram[PS_CHECKSUM_ADDR]
    THEN <<ps_init_array(sram, FALSE), ps_init_array(sram, FALSE)>>
    ELSE IF sram[PS_LAYOUT_VERSION_ADDR] = 1
      THEN <<ps_init_array(sram, TRUE), sram>>
      ELSE <<sram, sram>>

\* The shadow buffer after ps_set_rec_enable, before the write.
ps_set_rec_enable(buf, en) ==
  PsSeal([buf EXCEPT ![PS_REC_EN_ADDR] = IF en THEN 1 ELSE 0])

\* The shadow buffer after ps_set_wifi_info, before the write.
ps_set_wifi_info(buf, info) ==
  PsSeal([a \in SramAddrs |->
     CASE a >= PS_WIFI_AP_IP_ADDR /\ a < PS_WIFI_AP_IP_ADDR + 4
            -> info.ap_ip_addr[a - PS_WIFI_AP_IP_ADDR + 1]
       [] a >= PS_WIFI_STA_IP_ADDR /\ a < PS_WIFI_STA_IP_ADDR + 4
            -> info.sta_ip_addr[a - PS_WIFI_STA_IP_ADDR + 1]
       [] a = PS_WIFI_EN_ADDR -> PsWifiFlags(info.flags)
       [] OTHER ->
            ps_store_string(
              ps_store_string(
                ps_store_string(
                  ps_store_string(buf, info.ap_ssid, PS_WIFI_AP_SSID_ADDR, SsidMaxLen),
                  info.ap_pw, PS_WIFI_AP_PW_ADDR, PwMaxLen),
                info.sta_ssid, PS_WIFI_STA_SSID_ADDR, SsidMaxLen),
              info.sta_pw, PS_WIFI_STA_PW_ADDR, PwMaxLen)[a]])

\* The shadow buffer after ps_set_gui_state, before the write.
ps_set_gui_state(buf, state) ==
  PsSeal(ps_store_string(
    [buf EXCEPT ![PS_REC_ARD_EN_ADDR] = IF state.rec_arducam_enable THEN 1 ELSE 0,
                ![PS_REC_LEP_EN_ADDR] = IF state.rec_lepton_enable THEN 1 ELSE 0,
                ![PS_GAIN_MODE_ADDR] = state.gain_mode,
                ![PS_REC_INTERVAL_ADDR] = (state.record_interval \div 256) % 256,
                ![PS_REC_INTERVAL_ADDR + 1] = state.record_interval % 256],
    palettes[state.palette_index + 1], PS_PALETTE_NAME_ADDR, PaletteNameLen))

\* The interval and the palette name ps_get_gui_state finds are legal.
PsGuiLegal(buf) ==
  /\ system_get_rec_interval_index(buf[PS_REC_INTERVAL_ADDR] * 256
                                     + buf[PS_REC_INTERVAL_ADDR + 1]) >= 0
  /\ get_palette_by_name(PsString(buf, PS_PALETTE_NAME_ADDR)) >= 0

\* The shadow buffer after the repairs of ps_get_gui_state, before the write.
ps_get_gui_state(buf) ==
  PsSeal(
    CHOOSE r \in
      {IF get_palette_by_name(PsString(b, PS_PALETTE_NAME_ADDR)) < 0
         THEN ps_store_string(b, palettes[1], PS_PALETTE_NAME_ADDR, PaletteNameLen)
         ELSE b :
       b \in {IF system_get_rec_interval_index(buf[PS_REC_INTERVAL_ADDR] * 256
                                                + buf[PS_REC_INTERVAL_ADDR + 1]) < 0
                THEN [buf EXCEPT ![PS_REC_INTERVAL_ADDR] = record_intervals[1] \div 256,
                                 ![PS_REC_INTERVAL_ADDR + 1] = record_intervals[1] % 256]
                ELSE buf}} : TRUE)

\* The tasks that call the store after boot: app_task (ps_set_rec_enable),
\* cmd_task and gui_task (ps_set_wifi_info, ps_set_gui_state), lep_task
\* (ps_get_gui_state).
PsTasks == {"app", "cmd", "gui", "lep"}

\* An SRAM that was never written.
BlankSram == [a \in SramAddrs |-> 0]

\* Power on with the given SRAM content; ps_init has not run.
PsPowerOn(sram) ==
  /\ rtc_sram = sram
  /\ rtc_at_boot = sram
  /\ ps_shadow_buffer = BlankSram
  /\ ps_boot = "off"
  /\ ps_pc = [task \in PsTasks |-> "idle"]
  /\ ps_type = [task \in PsTasks |-> "FULL"]

\* Everything of the firmware outside the store.
PsFrame ==
  UNCHANGED <<app_vars, shared_vars, cam_vars, lep_vars, gui_vars, file_vars,
              env_vars, cmd_vars, time_vars, sock_vars, rx_vars, vospi_vars,
              client_vars, frame_vars>>

\* system_peripheral_init calls ps_init, before any task runs.
PsBoot ==
  /\ ps_boot = "off"
  /\ ps_boot' = "on"
  /\ rtc_at_boot' = rtc_sram
  /\ \E r \in {ps_init(rtc_sram)} :
       ps_shadow_buffer' = r[1] /\ rtc_sram' = r[2]
  /\ UNCHANGED <<ps_pc, ps_type>>
  /\ PsFrame

\* The values a task may store.
WifiInfos ==
  {[ap_ssid |-> <<65, 66>>, ap_pw |-> <<80>>, sta_ssid |-> <<83>>, sta_pw |-> <<>>,
    flags |-> 255, ap_ip_addr |-> <<1, 4, 168, 192>>,
    sta_ip_addr |-> <<9, 4, 168, 192>>],
   [ap_ssid |-> <<67>>, ap_pw |-> <<>>, sta_ssid |-> <<84, 85>>, sta_pw |-> <<81>>,
    flags |-> 1, ap_ip_addr |-> <<1, 0, 0, 10>>,
    sta_ip_addr |-> <<2, 0, 0, 10>>]}

GuiSettings ==
  {[rec_arducam_enable |-> TRUE, rec_lepton_enable |-> FALSE, gain_mode |-> 1,
    record_interval |-> 5, palette_index |-> 0],
   [rec_arducam_enable |-> FALSE, rec_lepton_enable |-> TRUE, gain_mode |-> 2,
    record_interval |-> 1, palette_index |-> 1]}

\* The mutations each task makes: <<shadow buffer after it, update type>>.
PsMutations(task, buf) ==
  CASE task = "app" -> {<<ps_set_rec_enable(buf, en), "REC">> : en \in BOOLEAN}
    [] task = "lep" -> IF PsGuiLegal(buf) THEN {}
                       ELSE {<<ps_get_gui_state(buf), "GUI">>}
    [] OTHER -> {<<ps_set_wifi_info(buf, info), "WIFI">> : info \in WifiInfos}
                \cup {<<ps_set_gui_state(buf, st), "GUI">> : st \in GuiSettings}

\* A task is inside a mutation of the store.
PsBusy(task) == ps_pc[task] # "idle"

\* The first part of a mutation: the fields and the checksum are stored in the
\* shadow buffer; the writes to the RTC chip follow.
PsBegin(task) ==
  /\ ps_boot = "on"
  /\ ~PsBusy(task)
  /\ \E m \in PsMutations(task, ps_shadow_buffer) :
       /\ ps_shadow_buffer' = m[1]
       /\ ps_type' = [ps_type EXCEPT ![task] = m[2]]
  /\ ps_pc' = [ps_pc EXCEPT ![task] = "region"]
  /\ UNCHANGED <<rtc_sram, rtc_at_boot, ps_boot>>
  /\ PsFrame

\* The same when the caller is the only task that uses the store.
PsBeginAlone(task) ==
  /\ \A other \in PsTasks : ~PsBusy(other)
  /\ PsBegin(task)

\* ps_write_array, first write: the region of the update type, taken from the
\* shadow buffer as it is now, under the I2C lock.
PsWriteRegion(task) ==
  /\ ps_pc[task] = "region"
  /\ rtc_sram' = write_rtc_bytes(rtc_sram, ps_shadow_buffer, PsRegion(ps_type[task]))
  /\ ps_pc' = [ps_pc EXCEPT ![task] = "checksum"]
  /\ UNCHANGED <<ps_shadow_buffer, rtc_at_boot, ps_boot, ps_type>>
  /\ PsFrame

\* ps_write_array, second write: the checksum byte; the mutation is complete.
PsWriteChecksum(task) ==
  /\ ps_pc[task] = "checksum"
  /\ rtc_sram' = write_rtc_bytes(rtc_sram, ps_shadow_buffer, {PS_CHECKSUM_ADDR})
  /\ ps_pc' = [ps_pc EXCEPT ![task] = "idle"]
  /\ UNCHANGED <<ps_shadow_buffer, rtc_at_boot, ps_boot, ps_type>>
  /\ PsFrame

\* The device restarts or loses power (the RTC chip is battery backed): every
\* task is gone wherever it was, the SRAM holds what was written so far, and
\* ps_init runs again.
PsReset ==
  /\ ps_boot = "on"
  /\ ps_boot' = "off"
  /\ ps_pc' = [task \in PsTasks |-> "idle"]
  /\ UNCHANGED <<ps_shadow_buffer, rtc_sram, rtc_at_boot, ps_type>>
  /\ PsFrame

(***************************************************************************)
(* vospi_transfer_segment: one read of a segment from the Lepton, packet   *)
(* by packet (specification SpecVospi).                                    *)
(***************************************************************************)
\* The line numbers and the upper nibbles of byte 0 the sensor is let to send.
VospiLines == {0, SegmentLine, SegmentLine + 1, LastLine, LastLine + 1}
VospiNibbles == 0..5
VospiPackets ==
  [discard : BOOLEAN, line : VospiLines, nibble : VospiNibbles]

\* transfer_packet: a packet whose byte 0 has the low nibble 0xF is a discard;
\* otherwise byte 1 is the line and, on line 20, the upper nibble of byte 0 is
\* the segment.
transfer_packet(pkt) ==
  IF pkt.discard
    THEN [valid |-> FALSE, line |-> NoLine, segment |-> 0]
    ELSE [valid |-> TRUE, line |-> pkt.line,
          segment |-> IF pkt.line = SegmentLine THEN pkt.nibble ELSE 0]

\* line == prevLine: line numbers should always increment.
DuplicateLine_Never(line, prev) == FALSE
DuplicateLine(line, prev) == line = prev

\* The segment numbers that end a valid region.
SegmentAborts_Never(segment) == FALSE
SegmentAborts(segment) == (segment < 2) \/ (segment > 4)

\* The check of the segment number on line 20.
CheckSegment(st, segment) ==
  IF ~st.valid
    THEN IF segment = 1
           THEN [st EXCEPT !.before = FALSE, !.valid = TRUE]
           ELSE st
    ELSE IF SegmentAborts(segment)
           THEN [st EXCEPT !.valid = FALSE, !.cur = 1]
           ELSE st

\* The packet is stored in the frame buffer.
MayCopy(st, line) == (st.before \/ st.valid) /\ line <= LastLine

\* The segment just read was the last one of the frame.
FrameComplete_Early(cur) == ~(cur < 3)
FrameComplete(cur) == ~(cur < 4)

\* Line 59: move to the next segment or complete the frame.
CompleteSegment(st) ==
  IF st.valid
    THEN IF ~FrameComplete(st.cur)
           THEN [st EXCEPT !.cur = @ + 1]
           ELSE [st EXCEPT !.success = TRUE, !.cur = 1, !.valid = FALSE]
    ELSE st

\* The deadline of a read, tested after a discard packet.
DeadlinePassed(usec) == usec > LEP_MAX_FRAME_XFER_WAIT_USEC

\* Everything of the firmware outside the segment read.
VospiOutside ==
  UNCHANGED <<app_vars, shared_vars, cam_vars, lep_vars, gui_vars, file_vars,
              env_vars, cmd_vars, time_vars, sock_vars, rx_vars, ps_vars,
              client_vars>>

VospiFrame == VospiOutside /\ UNCHANGED frame_vars

\* The entry of vospi_transfer_segment: its locals are initialised, its
\* statics are what the last call left.
VospiEnter ==
  /\ vospi_pc = "idle"
  /\ vospi_pc' = "loop"
  /\ prevLine' = NoLine
  /\ beforeValidData' = TRUE
  /\ success' = FALSE
  /\ vospi_usec' = 0
  /\ lep_copied' = {}
  /\ UNCHANGED <<curSegment, validSegmentRegion, lepPacket>>

\* lep_task has seen vsync and calls vospi_transfer_segment.
VospiCall == VospiEnter /\ VospiFrame

\* One pass of the while loop: the sensor sends pkt.
VospiPass(pkt) ==
  /\ vospi_pc = "loop"
  /\ vospi_usec <= VospiMaxUsec
  /\ vospi_usec' = vospi_usec + PacketUsec
  /\ \E r \in {transfer_packet(pkt)} :
       /\ lepPacket' = r
       /\ IF r.valid
            THEN /\ prevLine' = r.line
                 /\ IF DuplicateLine(r.line, prevLine)
                      THEN /\ vospi_pc' = "idle"
                           /\ UNCHANGED <<curSegment, validSegmentRegion,
                                          beforeValidData, success, lep_copied>>
                      ELSE \E s0 \in {[cur |-> curSegment,
                                       valid |-> validSegmentRegion,
                                       before |-> beforeValidData,
                                       success |-> success]} :
                           \E s1 \in {IF r.line = SegmentLine
                                        THEN CheckSegment(s0, r.segment)
                                        ELSE s0} :
                           \E s2 \in {IF r.line = LastLine
                                        THEN CompleteSegment(s1)
                                        ELSE s1} :
                             /\ lep_copied' =
                                  IF MayCopy(s1, r.line)
                                    THEN lep_copied \cup {<<s1.cur, r.line>>}
                                    ELSE lep_copied
                             /\ curSegment' = s2.cur
                             /\ validSegmentRegion' = s2.valid
                             /\ beforeValidData' = s2.before
                             /\ success' = s2.success
                             /\ vospi_pc' =
                                  IF r.line = LastLine THEN "idle" ELSE "loop"
            ELSE /\ vospi_pc' =
                      IF DeadlinePassed(vospi_usec') THEN "idle" ELSE "loop"
                 /\ UNCHANGED <<prevLine, curSegment, validSegmentRegion,
                                beforeValidData, success, lep_copied>>

VospiPacket(pkt) == VospiPass(pkt) /\ VospiFrame

(***************************************************************************)
(* lep_task with vospi_transfer_segment: the reads of one request after    *)
(* the other (specification SpecFrame).                                    *)
(***************************************************************************)
\* The segments a frame is made of.
FrameSegments == 4

\* app_task asks for a frame; it does so when lep_task has answered the
\* request before.
FrameRequest == lep_pc = "wait" /\ LepRequest

\* lep_task wakes for a request: what the frame buffer holds from now on was
\* read for an earlier request.
FrameWake ==
  /\ LepWake
  /\ frame_segments' = [k \in DOMAIN frame_segments |->
                          [frame_segments[k] EXCEPT !.stale = TRUE]]
  /\ UNCHANGED <<read_segment, time_vars, sock_vars, rx_vars, ps_vars,
                 vospi_vars, client_vars>>

\* vsync is high: "vsyncDetectedUsec = esp_timer_get_time();" and the call of
\* vospi_transfer_segment.
FrameCall ==
  /\ lep_pc = "vsync"
  /\ lep_pc' = "read"
  /\ VospiEnter
  /\ read_segment' = 0
  /\ UNCHANGED <<lep_notif, vsync_count, lep_low_polls, frame_segments>>
  /\ UNCHANGED <<app_vars, shared_vars, cam_vars, gui_vars, file_vars, env_vars,
                 cmd_vars, time_vars, sock_vars, rx_vars, ps_vars, client_vars>>

\* The packet just taken was valid and not a repeat of the line before.
LineTaken == lepPacket'.valid /\ ~DuplicateLine(lepPacket'.line, prevLine)

\* In a vsync period the sensor sends a whole segment, the line 20 of the
\* segment and then its line 59, or discards only.
SensorSends(pkt) ==
  IF pkt.discard THEN prevLine = NoLine
  ELSE /\ (pkt.line = LastLine) = (prevLine = SegmentLine)
       /\ prevLine = NoLine => vospi_usec = 0

\* One pass of the while loop inside the call.  On line 20 the segment number
\* of the read is noted; on line 59 in the valid region the segment just read
\* is one of the frame, the first one when curSegment is 1.
FramePacket(pkt) ==
  /\ lep_pc = "read"
  /\ SensorSends(pkt)
  /\ VospiPass(pkt)
  /\ read_segment' = IF LineTaken /\ lepPacket'.line = SegmentLine
                       THEN lepPacket'.segment
                       ELSE read_segment
  /\ frame_segments' =
       IF LineTaken /\ lepPacket'.line = LastLine /\ validSegmentRegion
         THEN (IF curSegment = 1 THEN <<>> ELSE frame_segments)
              \o <<[segment |-> read_segment, stale |-> FALSE]>>
         ELSE frame_segments
  /\ VospiOutside

\* vospi_transfer_segment has returned: a frame is reported, or the count of
\* failed reads goes up and at 36 the failure is reported.
FrameReturn ==
  /\ lep_pc = "read" /\ vospi_pc = "idle"
  /\ IF success
       THEN /\ app_notif' = app_notif \cup {LepResult(TRUE)}
            /\ lep_pc' = "wait"
            /\ vsync_count' = 0
       ELSE IF LepGiveUp(vsync_count + 1)
         THEN /\ app_notif' = app_notif \cup {LepResult(FALSE)}
              /\ lep_pc' = "wait"
              /\ vsync_count' = 0
         ELSE /\ vsync_count' = vsync_count + 1
              /\ lep_pc' = "vsync"
              /\ UNCHANGED app_notif
  /\ UNCHANGED <<lep_notif, lep_low_polls, app_private, shared_vars, cam_vars,
                 gui_vars, file_vars, env_vars, cmd_vars>>
  /\ UNCHANGED net_vars

(***************************************************************************)
(* The SD card slot.                                                       *)
(***************************************************************************)
CardChange ==
  /\ card_ok' = ~card_ok
  /\ user_events < MaxUserEvents
  /\ user_events' = user_events + 1
  /\ UNCHANGED <<app_vars, shared_vars, cam_vars, lep_vars, gui_vars, file_vars,
                 cmd_vars>>
  /\ UNCHANGED net_vars

(***************************************************************************)
(* Power-up and restart.                                                   *)
(***************************************************************************)
\* Recording parameters the persistent store may hold.
GuiStates ==
  [rec_arducam_enable : {TRUE}, rec_lepton_enable : {TRUE},
   record_interval : RecordIntervals]

\* The state in which the tasks start, given what survives a restart: the
\* persistent flag, the persistent parameters and the card in the slot.
TaskBootState(flag, ok, st) ==
  /\ app_pc = "boot"
  /\ app_state = "WAIT_TOS"
  /\ msec_count = 0
  /\ tos_elapsed_msec = 0
  /\ cam_image_request_state = "IDLE"
  /\ lep_image_request_state = "IDLE"
  /\ cam_gui_update_pending = FALSE
  /\ lep_gui_update_pending = FALSE
  /\ sdcard_present = FALSE
  /\ app_recording = FALSE
  /\ file_image_send_pending = FALSE
  /\ app_rec_arducam_en = st.rec_arducam_enable
  /\ app_rec_lepton_en = st.rec_lepton_enable
  /\ app_rec_seq_num = 0
  /\ app_rec_interval = st.record_interval
  /\ app_rec_interval_cnt = 0
  /\ cmd_requesting_image = FALSE
  /\ cmd_image_send_pending = FALSE
  /\ app_notif = {}
  /\ last_assembly = NoAssembly
  /\ gui_st = st
  /\ ps_rec_enable = flag
  /\ pwr_hold = TRUE
  /\ sys_image_file_buffer = NoRecord
  /\ sys_cmd_response_buffer = NoRecord
  /\ cam_pc = "wait" /\ cam_notif = FALSE
  /\ lep_pc = "wait" /\ lep_notif = FALSE
  /\ vsync_count = 0 /\ lep_low_polls = 0
  /\ gui_notif = {} /\ gui_cur_screen_index = "MAIN"
  /\ file_pc = "init" /\ file_notif = {}
  /\ recording = FALSE /\ rec_seq_num = 0
  /\ card_present = FALSE /\ mounted = FALSE
  /\ byte_offset = 0 /\ image_json_len = 0
  /\ stop_after_write = FALSE /\ no_progress_calls = 0
  /\ session_files = <<>>
  /\ card_ok = ok
  /\ cmd_pc = "recv" /\ cmd_notif = FALSE /\ response_was_image = FALSE
  /\ user_events = 0
  /\ sec_msec = SecondMsec - APP_EVAL_MSEC
  /\ wait_count = 0 /\ cmd_sleep_msec = 0 /\ cmd_waited_msec = 0
  /\ shutoff_delay_msec = 0
  /\ sock_open = FALSE /\ send_failed = FALSE
  /\ response_length = 0 /\ tx_byte_offset = 0
  /\ rx_circular_buffer = [i \in 0..(RxBufferLen - 1) |-> 0]
  /\ rx_circular_push_index = 0 /\ rx_circular_pop_index = 0
  /\ json_cmd_string = <<>> /\ json_overrun = FALSE
  /\ rx_stream = <<>> /\ decoded = <<>>
  /\ curSegment = 1 /\ validSegmentRegion = FALSE
  /\ vospi_pc = "idle" /\ prevLine = NoLine
  /\ beforeValidData = TRUE /\ success = FALSE
  /\ lepPacket = [valid |-> FALSE, line |-> NoLine, segment |-> 0]
  /\ lep_copied = {} /\ vospi_usec = 0
  /\ last_record_cmd = "none"
  /\ read_segment = 0 /\ frame_segments = <<>>

\* The same with the persistent store as it is before ps_init: an SRAM that was
\* never written.
BootState(flag, ok, st) == TaskBootState(flag, ok, st) /\ PsPowerOn(BlankSram)

\* esp_restart at the end of app_task_stop_recording(true): every task starts
\* again; the persistent store and the card are what they were.
Reboot ==
  /\ app_pc = "restart"
  /\ app_pc' = "boot"
  /\ app_state' = "WAIT_TOS"
  /\ msec_count' = 0
  /\ tos_elapsed_msec' = 0
  /\ cam_image_request_state' = "IDLE"
  /\ lep_image_request_state' = "IDLE"
  /\ cam_gui_update_pending' = FALSE
  /\ lep_gui_update_pending' = FALSE
  /\ sdcard_present' = FALSE
  /\ app_recording' = FALSE
  /\ file_image_send_pending' = FALSE
  /\ app_rec_arducam_en' = gui_st.rec_arducam_enable
  /\ app_rec_lepton_en' = gui_st.rec_lepton_enable
  /\ app_rec_seq_num' = 0
  /\ app_rec_interval' = gui_st.record_interval
  /\ app_rec_interval_cnt' = 0
  /\ cmd_requesting_image' = FALSE
  /\ cmd_image_send_pending' = FALSE
  /\ app_notif' = {}
  /\ last_assembly' = NoAssembly
  /\ pwr_hold' = TRUE
  /\ sys_image_file_buffer' = NoRecord
  /\ sys_cmd_response_buffer' = NoRecord
  /\ cam_pc' = "wait" /\ cam_notif' = FALSE
  /\ lep_pc' = "wait" /\ lep_notif' = FALSE
  /\ vsync_count' = 0 /\ lep_low_polls' = 0
  /\ gui_notif' = {} /\ gui_cur_screen_index' = "MAIN"
  /\ file_pc' = "init" /\ file_notif' = {}
  /\ recording' = FALSE /\ rec_seq_num' = 0
  /\ card_present' = FALSE /\ mounted' = FALSE
  /\ byte_offset' = 0 /\ image_json_len' = 0
  /\ stop_after_write' = FALSE /\ no_progress_calls' = 0
  /\ session_files' = <<>>
  /\ cmd_pc' = "recv" /\ cmd_notif' = FALSE /\ response_was_image' = FALSE
  /\ sec_msec' = SecondMsec - APP_EVAL_MSEC
  /\ wait_count' = 0 /\ cmd_sleep_msec' = 0 /\ cmd_waited_msec' = 0
  /\ shutoff_delay_msec' = 0
  /\ sock_open' = FALSE /\ send_failed' = FALSE
  /\ response_length' = 0 /\ tx_byte_offset' = 0
  /\ rx_circular_buffer' = [i \in 0..(RxBufferLen - 1) |-> 0]
  /\ rx_circular_push_index' = 0 /\ rx_circular_pop_index' = 0
  /\ json_cmd_string' = <<>> /\ json_overrun' = FALSE
  /\ rx_stream' = <<>> /\ decoded' = <<>>
  /\ curSegment' = 1 /\ validSegmentRegion' = FALSE
  /\ vospi_pc' = "idle" /\ prevLine' = NoLine
  /\ beforeValidData' = TRUE /\ success' = FALSE
  /\ lepPacket' = [valid |-> FALSE, line |-> NoLine, segment |-> 0]
  /\ lep_copied' = {} /\ vospi_usec' = 0
  /\ last_record_cmd' = "none"
  /\ read_segment' = 0 /\ frame_segments' = <<>>
  /\ ps_boot' = "off"
  /\ ps_pc' = [task \in PsTasks |-> "idle"]
  /\ UNCHANGED <<ps_shadow_buffer, rtc_sram, rtc_at_boot, ps_type>>
  /\ UNCHANGED <<ps_rec_enable, card_ok, gui_st, user_events>>

(***************************************************************************)
(* Specifications.  The firmware is checked one sub-system at a time; in   *)
(* each, the tasks left out never run, so the notifications they would     *)
(* send never arrive.                                                      *)
(***************************************************************************)
\* Power-up with nothing to resume and no card.
InitImage ==
  BootState(FALSE, FALSE, [rec_arducam_enable |-> TRUE, rec_lepton_enable |-> TRUE,
                           record_interval |-> 1])

\* The image pipeline: app_task with both imager drivers, the display and the
\* command responder's get_image; nothing is recorded.
NextImage ==
  \/ AppBoot
  \/ \E tos \in BOOLEAN : AppTick(tos)
  \/ \E found_image \in BOOLEAN : cam_task(found_image)
  \/ \E frame_done \in BOOLEAN : lep_task(frame_done)
  \/ gui_task_event_handler_task
  \/ CmdGetImage
  \/ CmdImageAvailable
  \/ CmdSend
  \/ CmdTimeout

SpecImage == InitImage /\ [][NextImage]_vars

\* The one-second cycle and shutdown: app_task with both imager drivers, the
\* display and adc_task.
NextCycle ==
  \/ AppBoot
  \/ \E tos \in BOOLEAN : AppTick(tos)
  \/ AppShutoff
  \/ \E found_image \in BOOLEAN : cam_task(found_image)
  \/ \E frame_done \in BOOLEAN : lep_task(frame_done)
  \/ gui_task_event_handler_task
  \/ AdcShutdown

SpecCycle == InitImage /\ [][NextCycle]_vars

\* The visual buffer: app_task, the display, the command responder's
\* get_image, and cam_task one blocking call at a time.
NextCam ==
  \/ AppBoot
  \/ \E tos \in BOOLEAN : AppTick(tos)
  \/ CamTaskWake
  \/ CamCaptureWait
  \/ \E found_image \in BOOLEAN : CamTransfer(found_image)
  \/ gui_task_event_handler_task
  \/ CmdGetImage
  \/ CmdImageAvailable
  \/ CmdSend
  \/ CmdTimeout

SpecCam == InitImage /\ [][NextCam]_vars

\* Recording: app_task with file_task, the record button, the record_off and
\* poweroff commands, the card slot and the restart after a write failure.
\* The imager drivers do not answer, so every record holds metadata only.
InitRecord == \E flag \in BOOLEAN, ok \in BOOLEAN, st \in GuiStates :
                BootState(flag, ok, st)

NextRecord ==
  \/ AppBoot
  \/ \E tos \in BOOLEAN : AppTick(tos)
  \/ AppShutoff
  \/ Reboot
  \/ GuiRecordButton
  \/ FileInit
  \/ \E probe \in BOOLEAN : FileTick(probe)
  \/ \E probe \in BOOLEAN : FileWriteChunk(probe)
  \/ \E probe \in BOOLEAN : FileWriteDone(probe)
  \/ \E cmd \in {"record_off", "poweroff"} : CmdNotify(cmd)
  \/ CardChange

SpecRecord == InitRecord /\ [][NextRecord]_vars

\* Starting a recording: app_task with file_task, the record button, the
\* record_on and record_off commands and the card slot.
NextStart ==
  \/ AppBoot
  \/ \E tos \in BOOLEAN : AppTick(tos)
  \/ Reboot
  \/ GuiRecordButton
  \/ FileInit
  \/ \E probe \in BOOLEAN : FileTick(probe)
  \/ \E probe \in BOOLEAN : FileWriteChunk(probe)
  \/ \E probe \in BOOLEAN : FileWriteDone(probe)
  \/ \E cmd \in {"record_on", "record_off"} : CmdNotify(cmd)
  \/ CardChange

SpecStart == InitRecord /\ [][NextStart]_vars

\* Nothing that changes the recording state is on its way in either task.
RecordingSettled ==
  /\ app_pc = "run" /\ file_pc = "loop"
  /\ app_notif \cap {"START_RECORD", "STOP_RECORD", "RECORD_START",
                     "RECORD_FAIL", "RECORD_BTN"} = {}
  /\ file_notif \cap {"START_RECORDING", "STOP_RECORDING"} = {}
  /\ ~stop_after_write

\* A client sends its first record command to a system that has started, knows
\* its card and has settled; the second command may follow at any time.
ClientMaySend ==
  /\ sdcard_present
  /\ user_events = 0 => RecordingSettled

ClientRecord(cmd) == ClientMaySend /\ CmdRecord(cmd)

\* The record commands of one client: app_task with file_task and a card that
\* stays good; the device was idle or recording when it was last switched off.
InitOnOff == \E flag \in BOOLEAN, st \in GuiStates : BootState(flag, TRUE, st)

NextOnOff ==
  \/ AppBoot
  \/ \E tos \in BOOLEAN : AppTick(tos)
  \/ FileInit
  \/ \E probe \in BOOLEAN : FileTick(probe)
  \/ \E probe \in BOOLEAN : FileWriteChunk(probe)
  \/ \E probe \in BOOLEAN : FileWriteDone(probe)
  \/ \E cmd \in {"record_on", "record_off"} : ClientRecord(cmd)

SpecOnOff == InitOnOff /\ [][NextOnOff]_vars

\* get_image against the clock: app_task with both imager drivers, the
\* display and the command responder; nothing is recorded.
NextRespond ==
  \/ AppBoot
  \/ RespondPass
  \/ \E found_image \in BOOLEAN : cam_task(found_image)
  \/ \E frame_done \in BOOLEAN : lep_task(frame_done)
  \/ gui_task_event_handler_task
  \/ CmdGetImage
  \/ CmdWaitPoll
  \/ CmdSend

SpecRespond == InitImage /\ [][NextRespond]_vars

\* The same with the end of cmd_task's wait loop taken statement by statement.
NextHandoff ==
  \/ AppBoot
  \/ RespondPass
  \/ \E found_image \in BOOLEAN : cam_task(found_image)
  \/ \E frame_done \in BOOLEAN : lep_task(frame_done)
  \/ gui_task_event_handler_task
  \/ CmdGetImage
  \/ CmdPoll
  \/ CmdLastPoll
  \/ CmdBail
  \/ CmdSend

SpecHandoff == InitImage /\ [][NextHandoff]_vars

\* The command parser alone, for every byte stream and every way recv may cut
\* it up.
RxChunks == UNION {[1..n -> Bytes] : n \in 1..MaxChunk}

NextRx == \E data \in RxChunks : RxRecv(data)

SpecRx == InitImage /\ [][NextRx]_vars

\* What the SRAM may hold at power on: nothing, a version 2 store (as
\* initialised, or with an interval or a palette name that is not in the
\* tables), a version 1 store (the later fields never written), or a store
\* whose checksum is wrong.
PsVersion2Stores ==
  {PsSeal([ps_init_array(BlankSram, FALSE) EXCEPT
             ![PS_REC_EN_ADDR] = rec,
             ![PS_REC_INTERVAL_ADDR + 1] = interval,
             ![PS_PALETTE_NAME_ADDR] = palette]) :
   rec \in {0, 1}, interval \in {1, 7}, palette \in {70, 90}}

PsVersion1Stores ==
  {PsSeal(ps_store_string(
            ps_store_string(
              [a \in SramAddrs |->
                 CASE a = PS_MAGIC_WORD_0_ADDR -> PS_MAGIC_WORD_0
                   [] a = PS_MAGIC_WORD_1_ADDR -> PS_MAGIC_WORD_1
                   [] a = PS_LAYOUT_VERSION_ADDR -> 1
                   [] a = PS_REC_EN_ADDR -> rec
                   [] a = PS_WIFI_EN_ADDR -> WIFI_INFO_FLAG_STARTUP_ENABLE
                   [] OTHER -> 0],
              ssid, PS_WIFI_AP_SSID_ADDR, SsidMaxLen),
            pw, PS_WIFI_AP_PW_ADDR, PwMaxLen)) :
   rec \in {0, 1}, ssid \in {DefaultSsid, <<77>>}, pw \in {<<>>, <<112>>}}

PsCorruptStores ==
  {[s EXCEPT ![PS_CHECKSUM_ADDR] = (@ + 1) % 256] : s \in PsVersion1Stores}

PsStores ==
  {BlankSram} \cup PsVersion2Stores \cup PsVersion1Stores \cup PsCorruptStores

InitPs ==
  \E sram \in PsStores :
    /\ TaskBootState(FALSE, TRUE, [rec_arducam_enable |-> TRUE,
                                   rec_lepton_enable |-> TRUE,
                                   record_interval |-> 1])
    /\ PsPowerOn(sram)

\* The store used as documented, by one task at a time.
NextPs ==
  \/ PsBoot
  \/ \E task \in PsTasks : PsBeginAlone(task)
  \/ \E task \in PsTasks : PsWriteRegion(task)
  \/ \E task \in PsTasks : PsWriteChecksum(task)

SpecPs == InitPs /\ [][NextPs]_vars

\* The was-recording flag, saved by app_task, on a device that may restart at
\* any moment; the SRAM held a version 2 store when it was first powered.
InitPsReset ==
  \E sram \in PsVersion2Stores :
    /\ TaskBootState(FALSE, TRUE, [rec_arducam_enable |-> TRUE,
                                   rec_lepton_enable |-> TRUE,
                                   record_interval |-> 1])
    /\ PsPowerOn(sram)

NextPsReset ==
  \/ PsBoot
  \/ PsBeginAlone("app")
  \/ PsWriteRegion("app")
  \/ PsWriteChecksum("app")
  \/ PsReset

SpecPsReset == InitPsReset /\ [][NextPsReset]_vars

\* The store as the tasks use it: each task starts a mutation when its own
\* trigger arrives (a command, a button, a notification), whatever the others
\* are doing.
NextPsTasks ==
  \/ PsBoot
  \/ \E task \in PsTasks : PsBegin(task)
  \/ \E task \in PsTasks : PsWriteRegion(task)
  \/ \E task \in PsTasks : PsWriteChecksum(task)

SpecPsTasks == InitImage /\ [][NextPsTasks]_vars

\* cmd_task and its client alone: status responses of several lengths, sends
\* that take a whole chunk, part of it, or fail.
ResponseLengths == {n * PartialSend : n \in 1..MaxResponseParts}

SendReturns(len) ==
  {-1, len} \cup (IF PartialSend < len THEN {PartialSend} ELSE {})

NextSend ==
  \/ CmdAccept
  \/ \E len \in ResponseLengths : CmdRecvStatus(len)
  \/ \E err \in SendReturns(TxChunkLen(response_length, tx_byte_offset)) :
       CmdSendChunk(err)
  \/ CmdRecvClosed

SpecSend == InitImage /\ [][NextSend]_vars

\* Longest record interval tried, in seconds.
MaxRecordInterval == 3

\* Interval recording: app_task with file_task and the record button, started
\* with the persistent flag set and a good card, for each record interval.
InitInterval ==
  \E interval \in 1..MaxRecordInterval :
    BootState(TRUE, TRUE, [rec_arducam_enable |-> TRUE, rec_lepton_enable |-> TRUE,
                           record_interval |-> interval])

NextInterval ==
  \/ AppBoot
  \/ \E tos \in BOOLEAN : AppTick(tos)
  \/ GuiRecordButton
  \/ FileInit
  \/ \E probe \in BOOLEAN : FileTick(probe)
  \/ \E probe \in BOOLEAN : FileWriteChunk(probe)
  \/ \E probe \in BOOLEAN : FileWriteDone(probe)

SpecInterval == InitInterval /\ [][NextInterval]_vars

\* The thermal driver alone, one vsync at a time, against any sensor.
NextLep ==
  \/ LepRequest
  \/ LepTaskWake
  \/ LepPollLow
  \/ \E frame_done \in BOOLEAN : LepSegment(frame_done)

SpecLep == InitImage /\ [][NextLep]_vars

\* The thermal segment read alone: lep_task calls it at every vsync and the
\* sensor sends any packet.
NextVospi ==
  \/ VospiCall
  \/ \E pkt \in VospiPackets : VospiPacket(pkt)

SpecVospi == InitImage /\ [][NextVospi]_vars

\* The packets of a sensor, of which line 20 and line 59 of each segment are
\* followed.
FramePackets == {pkt \in VospiPackets : pkt.line \in {SegmentLine, LastLine}}

\* The thermal driver with its segment read: app_task's requests, and a
\* sensor whose vsync is high whenever lep_task looks.
NextFrame ==
  \/ FrameRequest
  \/ FrameWake
  \/ FrameCall
  \/ \E pkt \in FramePackets : FramePacket(pkt)
  \/ FrameReturn

SpecFrame == InitImage /\ [][NextFrame]_vars

(***************************************************************************)
(* Properties                                                              *)
(***************************************************************************)
\* cam_task is inside ov2640_transferJpeg, filling sys_cam_buffer.
CamWriting == cam_pc = "transfer"

\* The display handler, were it to run now, would draw sys_cam_buffer.
GuiWouldRenderCam ==
  GuiRenders(gui_notif, GuiScreenAfter(gui_notif, gui_cur_screen_index),
             "CAM_FRAME")

\* app_task, were it to run now, would copy sys_cam_buffer into a record.
AppWouldReadCam ==
  app_pc = "run" /\ \E tos \in BOOLEAN : AppPass(tos).s.assembly.read_cam

\* C1: while the visual driver is writing its buffer (between a request and
\* the frame/fail signal that answers it), neither the display render nor the
\* frame assembly reads that buffer, whatever the interleaving and however
\* late the driver answers.
C1_BufferExclusive == CamWriting => ~GuiWouldRenderCam /\ ~AppWouldReadCam

\* Time lep_task has slept in its vsync poll since it took the request it is
\* serving; the segment reads take time on top of it.
LepWaitedMsec == lep_low_polls * LEP_VSYNC_POLL_MSEC

\* C2: every request-frame signal is answered by exactly one of frame-received
\* and frame-failed within the driver's deadline (thermal: about 36 vsync
\* periods, 340 ms), for every behaviour of the sensor.  Stated for the
\* thermal driver: a request that has not been answered yet has not waited
\* longer than the deadline.
C2_LepAnswersInTime == lep_pc = "vsync" => LepWaitedMsec <= LepDeadlineMsec

\* Both tasks have started and neither has a notification left to handle.
BootSettled ==
  /\ app_pc = "run" /\ file_pc # "init"
  /\ app_notif = {} /\ file_notif = {}

\* C3: booted with the persistent flag set and a usable card, and with no
\* button press, command or card change since, the orchestrator gets to
\* RECORDING whatever the order of the card-present signal and its own
\* start-record signal: once both tasks have handled everything they were
\* sent, it is recording.
C3_AutoResume ==
  (user_events = 0 /\ ps_rec_enable /\ card_ok /\ BootSettled) => app_recording

\* A step of app_task that handles a notification word holding RECORD_FAIL.
HandlesRecordFail ==
  app_pc = "run" /\ "RECORD_FAIL" \in app_notif /\ app_notif' = {}

\* The outcome the claim names: recording stopped, the device about to
\* restart, the persistent flag set.
RebootsWithFlag == app_pc' = "restart" /\ ~app_recording' /\ ps_rec_enable'

RecordingAtRecordFail ==
  /\ "SHUTDOWN" \notin app_notif
  /\ \/ "RECORD_START" \in app_notif
     \/ app_recording /\ "RECORD_BTN" \notin app_notif

EntersRecording == ~app_recording /\ app_recording'

\* A step in which the orchestrator leaves RECORDING without restarting the
\* device: record button, record_off command, or shutdown while recording.
CleanStop == app_recording /\ ~app_recording' /\ app_pc' # "restart"

\* C5: the persistent was-recording flag is set by the step that enters
\* RECORDING and clear after every clean stop.
C5_FlagSetOnEnterClearedOnCleanStop ==
  [][(EntersRecording => ps_rec_enable') /\ (CleanStop => ~ps_rec_enable')]_vars

\* Recording has just been stopped by a shutdown request, the flag is clear.
C5_Witness ==
  /\ app_pc = "shutdown_wait" /\ "STOP_RECORDING" \in file_notif
  /\ ~app_recording /\ ~ps_rec_enable

\* C6: within one recording session the files written are numbered 1, 2,
\* 3, ... in write order, for every interleaving of the start, stop and
\* new-image signals at the file recorder.
C6_SessionFilesNumberedFromOne ==
  \A i \in DOMAIN session_files : session_files[i] = i

\* A session in which a second file has been written.
C6_Witness == Len(session_files) >= 2 /\ file_pc = "loop"

\* write_image_file is in its loop and will call fwrite again.
WillCallFwrite == file_pc = "write" /\ byte_offset < image_json_len

\* C7: when fopen fails or an fwrite call returns without having written any
\* byte, the file recorder posts write-failed for that image, does not post
\* image-done for it and does not retry.  For fwrite: once a call of this
\* write_image_file has written nothing, the loop is over.
C7_NoProgressEndsWrite == no_progress_calls > 0 => ~WillCallFwrite

\* The state app_task's switch sees in its next pass: the variables after the
\* pending notification word has been handled.
Handled == app_task_handle_notifications(AppState, app_notif)

\* A pass of the app_task loop made in WAIT_IMAGE: it adds to msec_count or
\* leaves for WAIT_TOS, where msec_count starts again.
PassInWaitImage ==
  app_pc = "run" /\ app_state = "WAIT_IMAGE" /\ msec_count' # msec_count

\* The pass ran app_process_images and left for WAIT_TOS.
AssemblyThenWaitTos == last_assembly'.ran /\ app_state' = "WAIT_TOS"

PassAtTimeout ==
  /\ PassInWaitImage
  /\ msec_count >= APP_MAX_WAIT_MSEC
  /\ ~BothReceived(Handled)

\* The assembly of this pass was given exactly the imagers that are RECEIVED.
AssemblyOfReceived ==
  /\ last_assembly'.valid_cam = (Handled.cam_image_request_state = "RECEIVED")
  /\ last_assembly'.valid_lep = (Handled.lep_image_request_state = "RECEIVED")

TopOfSecondPass ==
  app_pc = "run" /\ app_state = "WAIT_TOS" /\ app_state' = "WAIT_IMAGE"

\* The display holds a frame of the imager: app_task has handed it one
\* (GUI_NOTIFY_x_FRAME) and gui_task has not yet answered with done.
DisplayHolds(bit) == bit \in gui_notif

\* C11: at each top of second the orchestrator posts a request-frame signal to
\* an imager driver iff the display has signalled done for every frame of that
\* imager handed to it; otherwise it posts no request to that imager.
C11_RequestIffDisplayDone ==
  [][TopOfSecondPass =>
       /\ IF DisplayHolds("CAM_FRAME")'
            THEN cam_notif' = cam_notif /\ cam_image_request_state' = "IDLE"
            ELSE cam_notif' /\ cam_image_request_state' = "REQUESTED"
       /\ IF DisplayHolds("LEP_FRAME")'
            THEN lep_notif' = lep_notif /\ lep_image_request_state' = "IDLE"
            ELSE lep_notif' /\ lep_image_request_state' = "REQUESTED"]_vars

\* A cycle in which the visual imager was skipped and the thermal one asked.
C11_Witness ==
  /\ app_state = "WAIT_IMAGE"
  /\ DisplayHolds("CAM_FRAME") /\ cam_image_request_state = "IDLE"
  /\ ~DisplayHolds("LEP_FRAME") /\ lep_image_request_state = "REQUESTED"

\* A pass of the app_task loop that ran app_process_images while recording.
AssemblyWhileRecording ==
  PassInWaitImage /\ last_assembly'.ran /\ Handled.app_recording

\* The pass handed a record to file_task: NEW_IMAGE posted, send-pending set.
HandsOver ==
  /\ ~Handled.file_image_send_pending /\ file_image_send_pending'
  /\ "NEW_IMAGE" \in file_notif'

\* Frames assembled since the previous handoff or the start of recording,
\* this one included: app_rec_interval_cnt after its increment.
FramesSinceHandoff == IncIntervalCnt(Handled.app_rec_interval_cnt)

\* C12 as stated: while recording with interval N, frame assembly hands the
\* record to the file recorder exactly when N frames have been assembled since
\* the previous handoff or since recording started.
C12_HandoffEveryNthFrame ==
  [][AssemblyWhileRecording =>
       (HandsOver <=> FramesSinceHandoff = app_rec_interval)]_vars

\* C12, amended: the handoff happens exactly when at least N frames have been
\* assembled since the previous handoff or the start of recording and no file
\* send is pending.
C12_HandoffFromNthFrameWhenIdle ==
  [][AssemblyWhileRecording =>
       (HandsOver <=> (/\ FramesSinceHandoff >= app_rec_interval
                       /\ ~Handled.file_image_send_pending))]_vars

\* A record handed over with an interval of more than one second.
C12_Witness ==
  /\ app_recording /\ app_rec_interval > 1
  /\ file_image_send_pending /\ "NEW_IMAGE" \in file_notif
  /\ app_rec_interval_cnt = 0 /\ last_assembly.ran

\* The responder leaves its wait for a response.
CmdLeavesWait == cmd_pc = "wait" /\ cmd_pc' # "wait"

\* The responder goes on to write the response to the socket.
CmdGoesToSend == cmd_pc' = "send" /\ response_was_image'

\* C13: when recording is off, every get_image request the command responder
\* accepted is answered with an image record before the responder's 1.5 s
\* wait expires, whatever the phase of the one-second cycle it arrives in.
C13_GetImageAnsweredInTime ==
  [][(CmdLeavesWait /\ ~app_recording) => CmdGoesToSend]_vars

\* An iteration of the responder's wait loop, after its delay.
CmdPollStep == CmdDelayExpired /\ cmd_sleep_msec' = 0

\* The responder drops the request: no response is written, and it receives
\* commands again.
CmdDrops == cmd_pc' = "recv" /\ sys_cmd_response_buffer' = sys_cmd_response_buffer

\* C14: if the orchestrator has not signalled the response buffer within the
\* 1.5 s wait (15 polls of 100 ms) after a get_image, the responder drops the
\* request without sending and receives commands again; it does not drop it
\* earlier.
C14_DropsAfterWait ==
  [][CmdPollStep =>
       /\ (cmd_waited_msec = CMD_RESPONSE_MAX_WAIT_MSEC /\ ~cmd_notif) => CmdDrops
       /\ cmd_pc' = "recv" =>
            (cmd_waited_msec = CMD_RESPONSE_MAX_WAIT_MSEC /\ ~cmd_notif)
       /\ cmd_waited_msec <= CMD_RESPONSE_MAX_WAIT_MSEC]_vars

\* The responder receives again while app_task still holds the request.
C14_Witness ==
  /\ cmd_pc = "recv" /\ wait_count = 0 /\ ~cmd_notif
  /\ cmd_requesting_image /\ ~cmd_image_send_pending


(***************************************************************************)
(* The command parser                                                      *)
(***************************************************************************)
\* The number of start delimiters in a string.
NumStart(s) == Cardinality({k \in 1..Len(s) : s[k] = CMD_JSON_STRING_START})

\* s is one framed command: a start delimiter, a body without delimiters, a
\* stop delimiter.
Framed(s) ==
  /\ Len(s) >= 2
  /\ s[1] = CMD_JSON_STRING_START
  /\ s[Len(s)] = CMD_JSON_STRING_STOP
  /\ \A k \in 2..(Len(s) - 1) : s[k] = OtherByte

BodyLen(s) == Len(s) - 2

\* What a new connection passes to process_rx_packet when s arrives in one recv.
DecodedAlone(s) ==
  process_rx_data([buf |-> [k \in 0..(RxBufferLen - 1) |-> 0], push |-> 0,
                   pop |-> 0, str |-> <<>>, overrun |-> FALSE,
                   decoded |-> <<>>], s).decoded

\* C15: every string passed to the command processor holds exactly one 0x02,
\* the start delimiter it begins at; none holds an embedded 0x02.
C15_OneStartPerCommand ==
  \A k \in 1..Len(decoded) : NumStart(decoded[k]) = 1

\* C16: when a 0x03 with no 0x02 before it is followed by a framed command, the
\* 0x03 is skipped without error and the command is passed to the command
\* processor exactly as when the 0x03 had not been sent.
C16_SpuriousStopSkipped ==
  (/\ Len(rx_stream) >= 1
   /\ rx_stream[1] = CMD_JSON_STRING_STOP
   /\ Framed(Tail(rx_stream)))
  => /\ decoded = DecodedAlone(Tail(rx_stream))
     /\ ~json_overrun

\* C17: a framed command with a body longer than the limit is not passed to the
\* command processor; one with a body of at most the limit is passed, whole.
C17_BodyLimit ==
  Framed(rx_stream)
  => IF BodyLen(rx_stream) > JsonMaxLen
       THEN decoded = <<>>
       ELSE decoded = <<SubSeq(rx_stream, 1, Len(rx_stream) - 1)>>


(***************************************************************************)
(* The client connection                                                   *)
(***************************************************************************)
\* A send of the send loop returns an error.
SendFails == cmd_pc = "send" /\ ~send_failed /\ send_failed'

\* C18: when a send of a response chunk returns an error the connection is
\* closed and cmd_task is back in accept; as long as the connection on which a
\* send failed is open, nothing is sent or received on it.
C18_SendErrorCloses ==
  [][(SendFails => ~sock_open')
     /\ ((send_failed /\ sock_open) => (cmd_pc' = cmd_pc /\ ~sock_open'))]_vars


(***************************************************************************)
(* Shutdown                                                                *)
(***************************************************************************)
\* The pass of app_task that finds the shutdown signal in its notification word.
HandlesShutdown == app_pc = "run" /\ "SHUTDOWN" \in app_notif /\ app_notif' = {}

\* The power-hold line is driven low.
PowerFalls == pwr_hold /\ ~pwr_hold'

\* app_task is in the shutdown branch or past it.
ShuttingDown == app_pc \in {"shutdown_wait", "halt"}

\* C19: the pass that handles a shutdown signal stops an active recording as a
\* clean stop (file_task is told to stop, the persistent flag is cleared),
\* posts the shutdown signal to the display, handles nothing else of its
\* notification word and leaves the power-hold line high; the line is driven low
\* only by the step after it, 1.5 s later, with the display already notified;
\* and from the shutdown pass on app_task consumes no signal and changes
\* nothing of the recording state.
C19_ShutdownOrder ==
  [][/\ HandlesShutdown =>
          /\ app_pc' = "shutdown_wait"
          /\ ~app_recording'
          /\ IF app_recording
               THEN /\ "STOP_RECORDING" \in file_notif'
                    /\ "START_RECORDING" \in file_notif' => "START_RECORDING" \in file_notif
                    /\ ~ps_rec_enable'
               ELSE file_notif' = file_notif /\ ps_rec_enable' = ps_rec_enable
          /\ "SHUTDOWN" \in gui_notif'
          /\ pwr_hold'
          /\ sdcard_present' = sdcard_present
          /\ file_image_send_pending' = file_image_send_pending
     /\ PowerFalls =>
          /\ app_pc = "shutdown_wait" /\ app_pc' = "halt"
          /\ ~app_recording
          /\ "SHUTDOWN" \in gui_notif
          /\ shutoff_delay_msec' >= SHUTDOWN_DELAY_MSEC
     /\ ShuttingDown =>
          /\ ShuttingDown'
          /\ app_notif \subseteq app_notif'
          /\ file_notif' \subseteq file_notif
          /\ gui_notif' = gui_notif
          /\ <<app_state, app_recording, sdcard_present, ps_rec_enable>>'
               = <<app_state, app_recording, sdcard_present, ps_rec_enable>>]_vars

\* Power is off after a shutdown that stopped a recording, and a signal posted
\* since then is left unhandled.
C19_Witness ==
  /\ app_pc = "halt" /\ ~pwr_hold /\ ~ps_rec_enable
  /\ "STOP_RECORDING" \in file_notif
  /\ "SHUTDOWN" \in gui_notif
  /\ app_notif # {}
  /\ shutoff_delay_msec >= SHUTDOWN_DELAY_MSEC


(***************************************************************************)
(* Starting a recording                                                    *)
(***************************************************************************)
\* The pass of app_task posts a start request to file_task.
PostsStart ==
  app_pc = "run" /\ app_notif' = {} /\ "START_RECORDING" \in Handled.to_file

\* file_task reports a started session.
AnswersStarted == "RECORD_START" \in app_notif' /\ "RECORD_START" \notin app_notif

\* The card-present state with which the handler gets to the record button
\* (tested before the card bits) or to the start command (tested after them).
CardPresentAtStart ==
  \/ "RECORD_BTN" \in app_notif /\ sdcard_present
  \/ "START_RECORD" \in app_notif /\ Handled.sdcard_present

\* C20: the orchestrator enters RECORDING only on file_task's started-OK, which
\* file_task sends only in answer to a start request, which app_task posts only
\* with its card-present state true: with card-present false neither the start
\* command nor the record button posts one.
C20_RecordingOnlyAfterStartedOk ==
  [][/\ EntersRecording => "RECORD_START" \in app_notif
     /\ AnswersStarted => ("START_RECORDING" \in file_notif /\ file_notif' = {})
     /\ ("START_RECORDING" \in file_notif' /\ "START_RECORDING" \notin file_notif)
          => PostsStart
     /\ PostsStart => CardPresentAtStart]_vars

\* The orchestrator is in RECORDING, file_task has its session open, and the
\* user has acted (button, command or card).
C20_Witness ==
  /\ app_recording /\ recording /\ sdcard_present
  /\ user_events >= 1
  /\ "RECORD_START" \notin app_notif


(***************************************************************************)
(* The persistent store                                                    *)
(***************************************************************************)
\* The tasks that are inside a mutation of the store.
PsMutators == {task \in {"app", "cmd", "gui"} : PsBusy(task)}

\* C21: at any instant at most one of app_task, cmd_task and gui_task is inside
\* a mutation of the persistent store.
C21_OneMutatorAtATime == Cardinality(PsMutators) <= 1

\* A save operation returns: its last write to the RTC chip has been made.
SaveCompletes ==
  \E task \in PsTasks : ps_pc[task] = "checksum" /\ ps_pc'[task] = "idle"

\* C22: when a save operation completes, the SRAM read back as a whole is
\* identical to the shadow buffer, whatever store ps_init found.
C22_ReadBackEqualsShadow ==
  [][SaveCompletes => rtc_sram' = ps_shadow_buffer']_vars

\* The checksum relation on a buffer: the sum of all bytes but the last, modulo
\* 256, is the last byte.
ChecksumCloses(buf) == PsSum(buf, SRAM_SIZE - 1) = buf[SRAM_SIZE - 1]

UpgradesAtBoot ==
  /\ ps_boot = "off" /\ ps_boot' = "on"
  /\ ps_valid_magic_word(rtc_sram)
  /\ ChecksumCloses(rtc_sram)
  /\ rtc_sram[PS_LAYOUT_VERSION_ADDR] = 1

\* The addresses of the version 1 fields and of the version 2 additions.
PsVersion1Fields == PS_REC_EN_ADDR..(PS_WIFI_STA_SSID_ADDR - 1)
PsVersion2Fields == PS_WIFI_STA_SSID_ADDR..(PS_LAST_VALID_ADDR - 1)

C25_ReadEndsAtDeadline ==
  vospi_pc = "loop" =>
    /\ vospi_usec <= LEP_MAX_FRAME_XFER_WAIT_USEC
    /\ ~(lepPacket.valid /\ prevLine = LastLine)

\* A line-20 packet with a segment number outside 2..4 arrives inside a valid
\* region.
AbortsFrame ==
  /\ vospi_pc = "loop"
  /\ validSegmentRegion
  /\ lepPacket'.valid
  /\ lepPacket'.line = SegmentLine
  /\ lepPacket'.line # prevLine
  /\ lepPacket'.segment \notin 2..4

DuplicateArrives ==
  /\ vospi_pc = "loop"
  /\ lepPacket'.valid
  /\ lepPacket'.line = prevLine

\* C27: a packet whose line number equals the previous packet's ends the read
\* at once, nothing more is copied in that read and the segment index is not
\* advanced; after lines 0, 20, 20 the slots of lines 21 and 59 are empty.
C27_DuplicateEndsRead ==
  [][DuplicateArrives =>
          /\ vospi_pc' = "idle"
          /\ lep_copied' = lep_copied
          /\ curSegment' = curSegment
          /\ validSegmentRegion' = validSegmentRegion
          /\ ~success']_vars

\* The read of lines 0, 20, 20 in the second segment has ended: lines 0 and 20
\* are filled, lines 21 and 59 are not, and the segment is still the second.
C27_Witness ==
  /\ vospi_pc = "idle"
  /\ lepPacket.valid /\ lepPacket.line = SegmentLine
  /\ prevLine = SegmentLine
  /\ lep_copied = {<<2, 0>>, <<2, SegmentLine>>}
  /\ curSegment = 2 /\ validSegmentRegion

\* C28: a read reports a complete frame exactly when line 59 arrives while the
\* current segment is 4 inside a valid region, and the driver is then back at
\* segment 1 with no valid region.
C28_FrameCompleteExactly ==
  [][vospi_pc = "loop" =>
       /\ success' <=>
            /\ lepPacket'.valid /\ lepPacket'.line = LastLine
            /\ curSegment = 4 /\ validSegmentRegion
       /\ success' =>
            curSegment' = 1 /\ ~validSegmentRegion' /\ vospi_pc' = "idle"]_vars

\* A frame has just been reported: line 59 of the fourth segment was filled.
C28_Witness ==
  /\ vospi_pc = "idle" /\ success
  /\ lepPacket.line = LastLine
  /\ <<4, LastLine>> \in lep_copied
  /\ curSegment = 1 /\ ~validSegmentRegion

(***************************************************************************)
(* The recording session of the two tasks (specification SpecStart).       *)
(***************************************************************************)
\* A stop is on its way to file_task: in its notification word, or taken from
\* the word together with an image that is still being written.
StopOutstanding == "STOP_RECORDING" \in file_notif \/ stop_after_write

\* C29: whenever app_task is recording and no stop is on its way to file_task,
\* file_task has an active session: recording is true and the card is
\* mounted.
C29_RecordingHasSession ==
  (app_recording /\ ~StopOutstanding) => (recording /\ mounted)

(***************************************************************************)
(* The response buffer between the two tasks (specification SpecHandoff).  *)
(***************************************************************************)
\* app_task has told cmd_task that the response buffer is populated and
\* cmd_task has not finished with it: CMD_NOTIFY_IMAGE is still in cmd_task's
\* notification word, or cmd_task is sending the image.
ResponderHolds == cmd_notif \/ (cmd_pc = "send" /\ response_was_image)

\* app_process_images copies an image into sys_cmd_response_buffer: the only
\* place where cmd_image_send_pending is set.
OrchestratorWrites == ~cmd_image_send_pending /\ cmd_image_send_pending'

\* C30: from the moment app_task signals cmd_task that the response buffer is
\* populated until cmd_task has finished with it, app_task does not write the
\* response buffer; in particular not while cmd_task is sending from it.
C30_NoWriteWhileHeld ==
  [][ResponderHolds => ~OrchestratorWrites]_vars

(***************************************************************************)
(* The image a get_image request is answered with (specification           *)
(* SpecRespond).                                                           *)
(***************************************************************************)
\* cmd_task has received get_image and starts to wait for the response.
RequestReceived == cmd_pc = "recv" /\ cmd_pc' = "wait"

\* C31: an image response was assembled after its request was received: when
\* a request is received no CMD_NOTIFY_IMAGE of an earlier request is pending,
\* so the notification the wait loop finds, and the record it then sends, were
\* produced by app_process_images during this wait.
C31_ResponseAssembledForRequest ==
  [][RequestReceived => ~cmd_notif']_vars

(***************************************************************************)
(* The image buffer between app_task and file_task (specification          *)
(* SpecStart).                                                             *)
(***************************************************************************)
\* sys_image_file_buffer is with file_task: FILE_NOTIFY_NEW_IMAGE is in its
\* notification word, or it is writing the buffer to the card.
RecorderHolds == "NEW_IMAGE" \in file_notif \/ file_pc = "write"

\* C32: from the new-image signal until the image-done signal for it has been
\* handled, app_task does not write sys_image_file_buffer, also when recording
\* was stopped and started again in between.
C32_NoWriteWhileRecorderHolds ==
  [][RecorderHolds =>
       /\ ~HandsOver
       /\ sys_image_file_buffer' = sys_image_file_buffer]_vars

\* file_task is still writing the last record of a session whose stop it has
\* received, app_task has already asked for a new session, and the buffer is
\* still marked as handed over.
C32_Witness ==
  /\ file_pc = "write" /\ stop_after_write
  /\ "START_RECORDING" \in file_notif
  /\ ~app_recording /\ file_image_send_pending

(***************************************************************************)
(* Sessions of file_task (specification SpecStart).                        *)
(***************************************************************************)
\* A pass of the file_task loop takes FILE_NOTIFY_START_RECORDING from the
\* notification word and calls setup_recording_session.
ProcessesStart ==
  /\ file_pc = "loop" /\ file_pc' # "init"
  /\ "START_RECORDING" \in file_notif
  /\ "START_RECORDING" \notin file_notif'

\* C33: file_task does not set up a session while it has an active one: when
\* it processes a start request its recording state is false.
C33_NoStartInsideSession ==
  [][ProcessesStart => ~recording]_vars

(***************************************************************************)
(* The record commands (specification SpecOnOff).                          *)
(***************************************************************************)
\* C34: with a good card, once the system has settled its recording state is
\* that of the last record command cmd_task processed: on after record_on, off
\* after record_off.
C34_SettlesAsLastCommand ==
  (RecordingSettled /\ last_record_cmd # "none") =>
    /\ app_recording = (last_record_cmd = "record_on")
    /\ recording = (last_record_cmd = "record_on")

(***************************************************************************)
(* The sequence numbers of the two tasks (specification SpecStart).        *)
(***************************************************************************)
\* C35: for every file written, the sequence number in the record equals the
\* one in the file's name: while write_image_file has a file open, named after
\* rec_seq_num, the record in sys_image_file_buffer carries that number.
C35_RecordNumberIsFileNumber ==
  file_pc = "write" => sys_image_file_buffer.seq = rec_seq_num

(***************************************************************************)
(* The persistent flag of an idle device (specification SpecStart).        *)
(***************************************************************************)
\* A start is on its way: APP_NOTIFY_START_RECORD waits in app_task's word,
\* the request waits in file_task's word, or file_task's answer waits in
\* app_task's word.
StartOutstanding ==
  \/ "START_RECORD" \in app_notif
  \/ "START_RECORDING" \in file_notif
  \/ "RECORD_START" \in app_notif

\* C36: whenever app_task runs, is not recording and no start is on its way,
\* the persistent was-recording flag is clear.
C36_IdleMeansFlagClear ==
  (app_pc = "run" /\ ~app_recording /\ ~StartOutstanding) => ~ps_rec_enable


RECURSIVE RxBuffered(_, _, _)
\* The bytes of rx_circular_buffer from the pop index up to the push index,
\* that is, the bytes received and not yet consumed by process_rx_data.
RxBuffered(buf, pop, push) ==
  IF pop = push THEN <<>>
  ELSE <<buf[pop]>> \o RxBuffered(buf, RxNext(pop), push)

\* A framed command lies whole in the bytes s.
HoldsCommand(s) ==
  \E a \in 1..Len(s) : \E b \in (a + 1)..Len(s) : Framed(SubSeq(s, a, b))

\* A complete, well-framed command is in the ring while cmd_task is blocked
\* in recv (process_rx_data has returned).
CommandWaits ==
  HoldsCommand(RxBuffered(rx_circular_buffer, rx_circular_pop_index,
                          rx_circular_push_index))

RECURSIVE FramedStream(_)
\* s is what a client sends that frames every command: framed commands one
\* after the other, the last one possibly not yet complete.
FramedStream(s) ==
  \/ s = <<>>
  \/ /\ s[1] = CMD_JSON_STRING_START
     /\ \A k \in 2..Len(s) : s[k] = OtherByte
  \/ \E b \in 2..Len(s) :
       /\ Framed(SubSeq(s, 1, b))
       /\ FramedStream(SubSeq(s, b + 1, Len(s)))

\* C37: a complete, well-framed command received into the ring is decoded
\* without further bytes arriving: when a client has sent framed commands only,
\* process_rx_data has returned and the task waits in recv, no complete framed
\* command is left in the ring.
C37_NoCommandLeftWaiting == FramedStream(rx_stream) => ~CommandWaits
\* The read has returned true and lep_task is about to report the frame.
FrameReported == lep_pc = "read" /\ vospi_pc = "idle" /\ success

\* C38: a frame the thermal driver reports consists of four segments whose
\* line-20 packets reported the segment numbers 1, 2, 3, 4 in that order, all
\* read during the request that reports it.
C38_FrameInOrderAndFresh ==
  FrameReported
  => frame_segments = [k \in 1..FrameSegments |->
                         [segment |-> k, stale |-> FALSE]]

\* ps_init takes the store as it finds it, without writing the defaults.
StoreValidates(sram) ==
  /\ ps_valid_magic_word(sram)
  /\ ps_compute_checksum(sram) = sram[PS_CHECKSUM_ADDR]

\* The device restarts while a task is inside a save of the store.
ResetInSave ==
  /\ ps_boot = "on" /\ ps_boot' = "off"
  /\ \E task \in PsTasks : PsBusy(task)

\* C39: when the device restarts during a save of the persistent store, the
\* next boot finds a store that validates, so that it is not reset to the
\* defaults.
C39_ResetInSaveLeavesValidStore ==
  [][ResetInSave => StoreValidates(rtc_sram')]_vars

\* An index into rx_circular_buffer that lies inside the array.
RxIndexInRange(i) == i \in 0..(RxBufferLen - 1)

\* C40: while the responder parses received bytes, the indices it keeps into
\* rx_circular_buffer lie inside the array and no write to json_cmd_string,
\* the terminator included, is made at an index outside the array.
C40_IndicesInRange ==
  /\ RxIndexInRange(rx_circular_push_index)
  /\ RxIndexInRange(rx_circular_pop_index)
  /\ ~json_overrun

====
